---- MODULE Spec2Model ----
(***************************************************************************)
(* Multi-agent inventory coordination of smartstock: the store agent, the  *)
(* warehouse agent and the supplier agent (src/app/agents).                *)
(*                                                                         *)
(* Agent.send_message (base.py:32-40) only logs, so no message sent by an  *)
(* agent is delivered by the code itself: every inbound message is an      *)
(* input of the environment (receive_message, base.py:42-45), drawn here   *)
(* from bounded sets, which covers re-delivery and any arrival order.      *)
(* A handler runs without suspension (its awaits never yield), so it is    *)
(* one action; the store cycle suspends at the awaited forecast provider.  *)
(*                                                                         *)
(* The persisted records carry the fields and the enumeration members the  *)
(* agents read and write (Order.location_id, OrderStatus.PROCESSING,       *)
(* TransactionType.DELIVERY, Supplier.max_capacity, ...), which are the    *)
(* ones of the data model in spec.md section 3.                            *)
(***************************************************************************)
EXTENDS Integers, Sequences, FiniteSets, TLC

VARIABLES
    now,                     \* datetime.utcnow(), in minutes
    ticks,                   \* clock advances so far
    invS,                    \* Inventory rows of the store: product -> quantity
    invW,                    \* Inventory rows of the warehouse
    ledger,                  \* Transaction rows, append-only
    orders,                  \* Order rows with their OrderItems
    pending_transactions,    \* StoreAgent.pending_transactions, insertion order
    pending_replenishments,  \* StoreAgent.pending_replenishments, insertion order
    storePc,                 \* position of the store's run_cycle
    scanRows,                \* inventory rows the store's scan has still to visit
    pending_transfers,       \* WarehouseAgent.pending_transfers
    transfer_priorities,     \* WarehouseAgent.transfer_priorities, insertion order
    wh_pending_orders,       \* WarehouseAgent.pending_orders, insertion order
    nTransfers,              \* transfer ids drawn so far (uuid4)
    nSupply,                 \* supply request ids drawn so far (uuid4)
    sup_pending_orders,      \* SupplierAgent.pending_orders
    sent,                    \* messages passed to send_message by the last step
    resp,                    \* status and id of the value the last handler returned
    lastOp,                  \* the operation the last step ran
    reissues,                \* per request: retries re-issued so far
    execLog,                 \* transfers visited by the last warehouse pass, in order
    running,                 \* Agent.running
    message_queue,           \* Agent.message_queue, oldest first
    drainPc,                 \* position of _process_message_queue
    cyclePc,                 \* position of _run_agent_cycles
    current,                 \* the message process_message is handling
    handled,                 \* process_message invocations completed, in order
    cycles,                  \* run_cycle invocations completed, in order
    sinceStop                \* invocations completed since stop()

vars == <<now, ticks, invS, invW, ledger, orders, pending_transactions,
          pending_replenishments, storePc, scanRows, pending_transfers,
          transfer_priorities, wh_pending_orders, nTransfers, nSupply,
          sup_pending_orders, sent, resp, lastOp, reissues, execLog,
          running, message_queue, drainPc, cyclePc, current, handled, cycles,
          sinceStop>>

storeVars == <<invS, orders, pending_transactions, pending_replenishments,
               storePc, scanRows, reissues>>
warehouseVars == <<invW, pending_transfers, transfer_priorities,
                   wh_pending_orders, nTransfers, nSupply, execLog>>
supplierVars == <<sup_pending_orders>>
loopVars == <<running, message_queue, drainPc, cyclePc, current, handled,
              cycles, sinceStop>>

-----------------------------------------------------------------------------
(* Bounds of the model *)

MaxQty == 2          \* largest quantity a message asks for
MaxStock == 3        \* inventory additions stop at this quantity
MaxLedger == 2       \* ledger rows written
MaxRequests == 1     \* replenishment requests created
MaxOrders == 1       \* customer orders created
MaxTransfers == 3    \* transfers created
MaxSupply == 1       \* supply requests created by the warehouse
MaxTicks == 2        \* clock advances seen by the store
MaxSupplierTicks == 4 \* clock advances seen by the supplier
MaxSupplierOrders == 1 \* purchase orders placed with the supplier
MaxUpdates == 5      \* entries of a supplier order's updates log
MaxMessages == 2     \* messages an agent receives
MaxCycles == 2       \* run_cycle invocations of an agent
MaxDemand == 12      \* largest annual demand tried, besides the documented one
MaxCost == 8         \* largest unit cost tried, besides the documented one
MaxForecast == 11    \* largest predicted demand the scan is tried with
MaxScanQty == 14     \* largest quantity of the row the scan is tried with

(* Program constants *)

MaxRetries == 3
MaxSalesPerCycle == 5
MinReorderQty == 10
ReorderFactor == 4
MinSafetyStock == 2
HoldingCostPct == 25  \* holding_cost_pct = 0.25, in hundredths
OrderingCost == 20

None == "none"
StoreId == "store"
WarehouseId == "main"

Products == {"P1", "P2"}
ProductOrder == <<"P1", "P2">>
unit_price == [p \in Products |-> IF p = "P1" THEN 50 ELSE 150]
minimum_stock == [p \in Products |-> IF p = "P1" THEN 1 ELSE 0]
maximum_stock == [p \in Products |-> 3]

SaleIds == {"S1"}
RequestIds == <<"R1", "R2", "R3", "R4", "R5", "R6">>
TransferIds == <<"T1", "T2", "T3", "T4", "T5">>
SupplyIds == <<"Q1", "Q2", "Q3", "Q4">>
OrderIds == <<"O1", "O2", "O3">>

Max(a, b) == IF a >= b THEN a ELSE b
Min(a, b) == IF a <= b THEN a ELSE b

Put(f, k, v) == [x \in (DOMAIN f) \cup {k} |-> IF x = k THEN v ELSE f[x]]

RECURSIVE SumSeq(_)
SumSeq(s) == IF s = <<>> THEN 0 ELSE Head(s) + SumSeq(Tail(s))

Entry(p, change, type, loc, ref) ==
    [product_id |-> p, quantity_change |-> change, transaction_type |-> type,
     location_id |-> loc, reference_id |-> ref]

Response(status, ref, items, qty) ==
    [status |-> status, ref |-> ref, items |-> items, quantity |-> qty]

NoResponse == Response(None, None, <<>>, 0)

(* What the variable resp keeps of a returned value: its status and the id
   it names *)
Outcome(r) == [status |-> r.status, ref |-> r.ref]

Item(p, q) == [product_id |-> p, quantity |-> q]

-----------------------------------------------------------------------------
(* Store agent *)

(* The state a store handler reads and writes, threaded through the helpers *)
StoreState ==
    [inv |-> invS, ledger |-> ledger, orders |-> orders,
     pt |-> pending_transactions, pr |-> pending_replenishments,
     sent |-> <<>>, reissues |-> reissues]

Available(inv, p) == IF p \in DOMAIN inv THEN inv[p] ELSE 0

ValidItem(item) == item.product_id # None /\ item.quantity > 0

IsShortOrEqual(inv, item) ==
    item.product_id \notin DOMAIN inv \/ inv[item.product_id] <= item.quantity

IsShort(inv, item) ==
    item.product_id \notin DOMAIN inv \/ inv[item.product_id] < item.quantity

ShortItems(inv, items) ==
    SelectSeq(items, LAMBDA it : ValidItem(it) /\ IsShort(inv, it))

InsufficientItems(inv, items) ==
    LET short == ShortItems(inv, items)
    IN [i \in 1..Len(short) |->
          [product_id |-> short[i].product_id,
           requested |-> short[i].quantity,
           available |-> Available(inv, short[i].product_id)]]

ValidItems(inv, items) ==
    SelectSeq(items, LAMBDA it : ValidItem(it) /\ ~IsShort(inv, it))

PendingQty(pr, p) ==
    SumSeq([i \in 1..Len(pr) |->
              IF pr[i].product_id = p /\ pr[i].status = "pending"
              THEN pr[i].quantity ELSE 0])

ReqIndex(pr, rid) ==
    IF \E i \in 1..Len(pr) : pr[i].request_id = rid
    THEN CHOOSE i \in 1..Len(pr) : pr[i].request_id = rid
    ELSE 0

ReplenishmentMsg(rid, p, q, prio) ==
    [recipient |-> "warehouse_agent_main", message_type |-> "REPLENISHMENT_REQUEST",
     request_id |-> rid, product_id |-> p, quantity |-> q,
     store_id |-> StoreId, priority |-> prio]

RequestReplenishmentUnstored(st, p, q, prio, is_retry, original_request_id) ==
    LET rid == IF is_retry THEN original_request_id
               ELSE RequestIds[Len(st.pr) + 1]
    IN [st EXCEPT !.sent = Append(@, ReplenishmentMsg(rid, p, q, prio))]

RequestReplenishment(st, p, q, prio, is_retry, original_request_id) ==
    LET rid == IF is_retry THEN original_request_id
               ELSE RequestIds[Len(st.pr) + 1]
        stored == IF ReqIndex(st.pr, rid) = 0
                  THEN Append(st.pr,
                         [request_id |-> rid, product_id |-> p, quantity |-> q,
                          priority |-> prio, status |-> "pending",
                          retry_count |-> IF is_retry THEN 1 ELSE 0,
                          reference_id |-> None])
                  ELSE st.pr
    IN [st EXCEPT !.pr = stored,
                  !.sent = Append(@, ReplenishmentMsg(rid, p, q, prio))]

CheckReorderNeededUnchecked(st, p) ==
    IF p \notin DOMAIN st.inv \/ p \notin Products THEN st
    ELSE IF st.inv[p] <= minimum_stock[p]
         THEN RequestReplenishment(st, p,
                                   Max(MinReorderQty, minimum_stock[p] * ReorderFactor),
                                   "HIGH", FALSE, None)
         ELSE st

CheckReorderNeeded(st, p) ==
    IF p \notin DOMAIN st.inv \/ p \notin Products THEN st
    ELSE IF st.inv[p] <= minimum_stock[p]
         THEN LET order_qty == Max(MinReorderQty, minimum_stock[p] * ReorderFactor)
              IN IF PendingQty(st.pr, p) = 0
                 THEN RequestReplenishment(st, p, order_qty, "HIGH", FALSE, None)
                 ELSE st
         ELSE st

RECURSIVE ReorderAll(_, _)
ReorderAll(st, items) ==
    IF items = <<>> THEN st
    ELSE ReorderAll(CheckReorderNeeded(st, Head(items).product_id), Tail(items))

RECURSIVE DebitItems(_, _, _, _)
DebitItems(inv, entries, items, tid) ==
    IF items = <<>> THEN [ok |-> TRUE, inv |-> inv, entries |-> entries]
    ELSE LET p == Head(items).product_id
             q == Head(items).quantity
         IN IF p \notin DOMAIN inv \/ inv[p] < q
            THEN [ok |-> FALSE, inv |-> inv, entries |-> entries]
            ELSE DebitItems([inv EXCEPT ![p] = @ - q],
                            Append(entries, Entry(p, -q, "SALE", StoreId, tid)),
                            Tail(items), tid)

TxIndex(pt, tid) ==
    IF \E i \in 1..Len(pt) : pt[i].transaction_id = tid
    THEN CHOOSE i \in 1..Len(pt) : pt[i].transaction_id = tid
    ELSE 0

ProcessSale(st, tid) ==
    LET i == TxIndex(st.pt, tid)
    IN IF i = 0
       THEN [st |-> st, resp |-> Response("error", tid, <<>>, 0)]
       ELSE LET d == DebitItems(st.inv, <<>>, st.pt[i].items, tid)
            IN IF ~d.ok
               THEN [st |-> st, resp |-> Response("error", tid, <<>>, 0)]
               ELSE [st |-> ReorderAll(
                              [st EXCEPT !.inv = d.inv,
                                         !.ledger = @ \o d.entries,
                                         !.pt[i].status = "completed"],
                              st.pt[i].items),
                     resp |-> Response("success", tid, <<>>, 0)]

StoreTransaction(pt, tid, items) ==
    LET rec == [transaction_id |-> tid, items |-> items,
                timestamp |-> now, status |-> "pending"]
        i == TxIndex(pt, tid)
    IN IF i = 0 THEN Append(pt, rec) ELSE [pt EXCEPT ![i] = rec]

HandleSaleRequest(st, m) ==
    IF m.transaction_id = None \/ m.items = <<>>
    THEN [st |-> st, resp |-> Response("error", None, <<>>, 0)]
    ELSE LET insufficient_items == InsufficientItems(st.inv, m.items)
             valid_items == ValidItems(st.inv, m.items)
         IN IF insufficient_items # <<>>
            THEN [st |-> st,
                  resp |-> Response("insufficient_inventory", None,
                                    insufficient_items, 0)]
            ELSE IF valid_items = <<>>
            THEN [st |-> st, resp |-> Response("error", None, <<>>, 0)]
            ELSE ProcessSale(
                   [st EXCEPT !.pt = StoreTransaction(@, m.transaction_id, valid_items)],
                   m.transaction_id)

ApplyUpdate(quantity, update_type, amount) ==
    IF update_type = "ADD" THEN quantity + amount
    ELSE IF update_type = "REMOVE" THEN Max(0, quantity - amount)
    ELSE quantity

UpdateReference(m) ==
    IF m.request_id # None THEN m.request_id
    ELSE IF m.transfer_id # None THEN m.transfer_id
    ELSE "uuid"

MarkFulfilled(pr, rid) ==
    [i \in 1..Len(pr) |->
       IF pr[i].request_id = rid THEN [pr[i] EXCEPT !.status = "fulfilled"]
       ELSE pr[i]]

HandleInventoryUpdate(st, m) ==
    IF m.product_id = None \/ m.quantity = 0
    THEN [st |-> st, resp |-> Response("error", None, <<>>, 0)]
    ELSE IF m.product_id \notin DOMAIN st.inv /\ m.update_type # "ADD"
    THEN [st |-> st, resp |-> Response("error", m.product_id, <<>>, 0)]
    ELSE LET p == m.product_id
             new_quantity ==
                 IF p \in DOMAIN st.inv
                 THEN ApplyUpdate(st.inv[p], m.update_type, m.quantity)
                 ELSE m.quantity
             transaction ==
                 Entry(p,
                       IF m.update_type = "ADD" THEN m.quantity ELSE -m.quantity,
                       IF m.update_type = "ADD" THEN "DELIVERY" ELSE "TRANSFER",
                       StoreId, UpdateReference(m))
         IN [st |-> [st EXCEPT !.inv = Put(@, p, new_quantity),
                               !.ledger = Append(@, transaction),
                               !.pr = IF m.request_id # None
                                      THEN MarkFulfilled(@, m.request_id)
                                      ELSE @],
             resp |-> Response("success", p, <<>>, new_quantity)]

(* OrderStatus[status]: a name that is no member raises KeyError *)
OrderStatus == {"PROCESSING", "READY_FOR_PICKUP", "DELIVERED", "CANCELLED"}

RECURSIVE ReturnItems(_, _, _, _)
ReturnItems(st, items, order_id, reason) ==
    IF items = <<>> THEN st
    ELSE LET p == Head(items).product_id
             q == Head(items).quantity
             next == IF p \in DOMAIN st.inv
                     THEN [st EXCEPT !.inv[p] = @ + q,
                                     !.ledger = Append(@, Entry(p, q, "RETURN",
                                                                StoreId, order_id))]
                     ELSE st
         IN ReturnItems(next, Tail(items), order_id, reason)

CancelReturnsItems(status, order) ==
    status = "CANCELLED" /\ order.status # "DELIVERED"

HandleOrderUpdate(st, m) ==
    IF m.order_id = None \/ m.status = None
    THEN [st |-> st, resp |-> Response("error", None, <<>>, 0)]
    ELSE IF m.order_id \notin DOMAIN st.orders
    THEN [st |-> st, resp |-> Response("error", m.order_id, <<>>, 0)]
    ELSE IF m.status \notin OrderStatus
    THEN [st |-> st, resp |-> Response("error", m.order_id, <<>>, 0)]
    ELSE LET updated == [st EXCEPT !.orders[m.order_id].status = m.status,
                                   !.orders[m.order_id].updated_at = now]
             order == updated.orders[m.order_id]
         IN [st |-> IF CancelReturnsItems(m.status, order)
                    THEN ReturnItems(updated, order.items, m.order_id, "cancelled")
                    ELSE updated,
             resp |-> Response("success", m.order_id, <<>>, 0)]

DemotedPriority(priority) == IF priority = "HIGH" THEN "MEDIUM" ELSE "LOW"

MayRetryOnceMore(request) == request.retry_count <= MaxRetries

MayRetry(request) == request.retry_count < MaxRetries

MatchingRequest(pr, transfer_id) ==
    IF \E i \in 1..Len(pr) : pr[i].reference_id = transfer_id
    THEN CHOOSE i \in 1..Len(pr) :
           /\ pr[i].reference_id = transfer_id
           /\ \A j \in 1..(i - 1) : pr[j].reference_id # transfer_id
    ELSE 0

HandleTransferFailed(st, m) ==
    IF m.transfer_id = None \/ m.product_id = None
    THEN [st |-> st, resp |-> Response("error", None, <<>>, 0)]
    ELSE LET i == MatchingRequest(st.pr, m.transfer_id)
         IN IF i = 0
            THEN [st |-> st, resp |-> Response("acknowledged", None, <<>>, 0)]
            ELSE LET failed == [st EXCEPT !.pr[i].status = "failed"]
                     request == failed.pr[i]
                 IN IF MayRetry(request)
                    THEN LET counted == [failed EXCEPT
                                           !.pr[i].retry_count = @ + 1,
                                           !.reissues[request.request_id] = @ + 1]
                         IN [st |-> RequestReplenishment(
                                       counted, m.product_id, request.quantity,
                                       DemotedPriority(request.priority),
                                       TRUE, request.request_id),
                             resp |-> Response("acknowledged", request.request_id,
                                               <<>>, 0)]
                    ELSE [st |-> failed,
                          resp |-> Response("acknowledged", request.request_id,
                                            <<>>, 0)]

StoreProcessMessageAliased(st, message_type, content) ==
    IF message_type = "SALE_REQUEST" THEN HandleSaleRequest(st, content)
    ELSE IF message_type = "INVENTORY_UPDATE" THEN HandleInventoryUpdate(st, content)
    ELSE IF message_type = "ORDER_UPDATE" THEN HandleOrderUpdate(st, content)
    ELSE IF message_type \in {"TRANSFER_FAILED", "TRANSFER_UPDATE"}
    THEN HandleTransferFailed(st, content)
    ELSE [st |-> st, resp |-> NoResponse]

(* process_message of the store: a message_type outside the dispatch is
   logged and None is returned *)
StoreProcessMessage(st, message_type, content) ==
    IF message_type = "SALE_REQUEST" THEN HandleSaleRequest(st, content)
    ELSE IF message_type = "INVENTORY_UPDATE" THEN HandleInventoryUpdate(st, content)
    ELSE IF message_type = "ORDER_UPDATE" THEN HandleOrderUpdate(st, content)
    ELSE IF message_type = "TRANSFER_FAILED" THEN HandleTransferFailed(st, content)
    ELSE [st |-> st, resp |-> NoResponse]

(* the messages of a batch that are addressed to the store agent, handled one
   after the other in the order sent *)
RECURSIVE StoreReceiveAll(_, _)
StoreReceiveAll(st, msgs) ==
    IF msgs = <<>> THEN st
    ELSE StoreReceiveAll(
           StoreProcessMessage(st, Head(msgs).message_type, Head(msgs)).st,
           Tail(msgs))

(* create_order: the second loop visits every item of the request, also the
   ones the validation loop skipped, and debits without a second check *)
RECURSIVE OrderLines(_, _, _, _)
OrderLines(acc, items, order_id, pos) ==
    IF pos > Len(items) \/ ~acc.ok THEN acc
    ELSE LET p == items[pos].product_id
             q == items[pos].quantity
         IN IF p \notin Products
            THEN OrderLines(acc, items, order_id, pos + 1)
            ELSE IF p \notin DOMAIN acc.inv
            THEN [acc EXCEPT !.ok = FALSE]
            ELSE OrderLines(
                   [acc EXCEPT !.inv[p] = @ - q,
                               !.lines = Append(@, Item(p, q)),
                               !.entries = Append(@, Entry(p, -q, "ORDER",
                                                           StoreId, order_id)),
                               !.total = @ + q * unit_price[p]],
                   items, order_id, pos + 1)

CreateOrder(st, items) ==
    IF items = <<>>
    THEN [st |-> st, resp |-> Response("error", None, <<>>, 0)]
    ELSE LET insufficient_items == InsufficientItems(st.inv, items)
         IN IF insufficient_items # <<>>
            THEN [st |-> st,
                  resp |-> Response("insufficient_inventory", None,
                                    insufficient_items, 0)]
            ELSE LET order_id == OrderIds[Cardinality(DOMAIN st.orders) + 1]
                     done == OrderLines([ok |-> TRUE, inv |-> st.inv, lines |-> <<>>,
                                         entries |-> <<>>, total |-> 0],
                                        items, order_id, 1)
                 IN IF ~done.ok
                    THEN [st |-> st, resp |-> Response("error", None, <<>>, 0)]
                    ELSE [st |-> ReorderAll(
                                   [st EXCEPT
                                      !.inv = done.inv,
                                      !.ledger = @ \o done.entries,
                                      !.orders = Put(@, order_id,
                                          [status |-> "PROCESSING",
                                           updated_at |-> now,
                                           items |-> done.lines,
                                           total_amount |-> done.total])],
                                   items),
                          resp |-> Response("success", order_id, <<>>, done.total)]

(* run_cycle of the store *)
ProcessingMinutes == 30
PickupMinutes == 1440
CompletedKeptMinutes == 1440

RECURSIVE ProcessPending(_, _)
ProcessPending(st, tids) ==
    IF tids = <<>> THEN st
    ELSE ProcessPending(ProcessSale(st, Head(tids)).st, Tail(tids))

PendingIds(pt) ==
    LET pending == SelectSeq(pt, LAMBDA t : t.status = "pending")
    IN [i \in 1..Min(Len(pending), MaxSalesPerCycle) |-> pending[i].transaction_id]

ProcessPendingSales(st) ==
    LET processed == ProcessPending(st, PendingIds(st.pt))
    IN [processed EXCEPT !.pt =
          SelectSeq(@, LAMBDA t : ~(t.status = "completed"
                                    /\ now - t.timestamp > CompletedKeptMinutes))]

InventoryRows(inv) == SelectSeq(ProductOrder, LAMBDA p : p \in DOMAIN inv)

SafetyStock(predicted_demand) == Max(MinSafetyStock, (predicted_demand * 2) \div 10)

ScanPriority(quantity, safety_stock, predicted_demand) ==
    IF quantity < safety_stock THEN "HIGH"
    ELSE IF quantity < predicted_demand THEN "MEDIUM"
    ELSE "LOW"

CheckInventoryRowFromStock(st, p, predicted_demand) ==
    LET safety_stock == SafetyStock(predicted_demand)
        reorder_point == predicted_demand + safety_stock
        current_plus_pending == st.inv[p] + PendingQty(st.pr, p)
    IN IF current_plus_pending < reorder_point
       THEN RequestReplenishment(st, p, reorder_point * 2 - st.inv[p],
                                 ScanPriority(st.inv[p], safety_stock, predicted_demand),
                                 FALSE, None)
       ELSE st

CheckInventoryRow(st, p, predicted_demand) ==
    LET safety_stock == SafetyStock(predicted_demand)
        reorder_point == predicted_demand + safety_stock
        current_plus_pending == st.inv[p] + PendingQty(st.pr, p)
    IN IF current_plus_pending < reorder_point
       THEN RequestReplenishment(st, p, reorder_point * 2 - current_plus_pending,
                                 ScanPriority(st.inv[p], safety_stock, predicted_demand),
                                 FALSE, None)
       ELSE st

RECURSIVE UpdateOrdersFrom(_, _)
UpdateOrdersFrom(st, ids) ==
    IF ids = <<>> THEN st
    ELSE LET o == Head(ids)
             order == st.orders[o]
             next ==
               IF order.status = "PROCESSING"
               THEN IF now - order.updated_at > ProcessingMinutes
                    THEN [st EXCEPT !.orders[o].status = "READY_FOR_PICKUP",
                                    !.orders[o].updated_at = now]
                    ELSE st
               ELSE IF order.status = "READY_FOR_PICKUP"
                       /\ now - order.updated_at > PickupMinutes
               THEN ReturnItems([st EXCEPT !.orders[o].status = "CANCELLED",
                                           !.orders[o].updated_at = now],
                                order.items, o, "abandoned")
               ELSE st
         IN UpdateOrdersFrom(next, Tail(ids))

UpdateOrders(st) ==
    UpdateOrdersFrom(st,
        SelectSeq(OrderIds, LAMBDA o : o \in DOMAIN st.orders
                    /\ st.orders[o].status \in {"PROCESSING", "READY_FOR_PICKUP"}))

-----------------------------------------------------------------------------
(* Inputs of the store *)

ItemLists ==
    {<<>>}
    \cup {<<Item(p, q)>> : p \in Products, q \in 0..MaxQty}
    \cup {<<Item(ProductOrder[1], q1), Item(p2, q2)>> :
            q1 \in 1..MaxQty, p2 \in Products, q2 \in 1..MaxQty}

SaleRequests ==
    [transaction_id : SaleIds, items : ItemLists]
    \cup [transaction_id : {None}, items : {<<Item(ProductOrder[1], 1)>>}]

InventoryUpdates ==
    [product_id : Products, quantity : (-1)..MaxQty,
     update_type : {"ADD", "REMOVE"},
     request_id : {None}, transfer_id : {None, TransferIds[1]}]
    \cup [product_id : Products \cup {None}, quantity : {1},
          update_type : {"ADD"},
          request_id : {RequestIds[1]}, transfer_id : {TransferIds[1]}]

OrderUpdates ==
    [order_id : {None, OrderIds[1], OrderIds[2]},
     status : OrderStatus \cup {None, "CANCELED"}]

TransferFailures ==
    [transfer_id : {None, TransferIds[1], TransferIds[2]},
     product_id : Products \cup {None}]

Forecasts == {0, 3}

Bounded(st) ==
    /\ Len(SelectSeq(st.ledger, LAMBDA e : e.location_id = StoreId)) <= MaxLedger
    /\ Len(st.pr) <= MaxRequests
    /\ Cardinality(DOMAIN st.orders) <= MaxOrders
    /\ \A p \in DOMAIN st.inv : st.inv[p] <= MaxStock

StoreCommit(r, op) ==
    /\ Bounded(r.st)
    /\ invS' = r.st.inv
    /\ ledger' = r.st.ledger
    /\ orders' = r.st.orders
    /\ pending_transactions' = r.st.pt
    /\ pending_replenishments' = r.st.pr
    /\ reissues' = r.st.reissues
    /\ sent' = r.st.sent
    /\ resp' = Outcome(r.resp)
    /\ lastOp' = op
    /\ UNCHANGED <<now, ticks, warehouseVars, supplierVars, loopVars>>

SaleRequest ==
    \E m \in SaleRequests :
        /\ StoreCommit(HandleSaleRequest(StoreState, m), "SALE_REQUEST")
        /\ UNCHANGED <<storePc, scanRows>>

InventoryUpdate ==
    \E m \in InventoryUpdates :
        /\ StoreCommit(HandleInventoryUpdate(StoreState, m), "INVENTORY_UPDATE")
        /\ UNCHANGED <<storePc, scanRows>>

OrderUpdate ==
    \E m \in OrderUpdates :
        /\ StoreCommit(HandleOrderUpdate(StoreState, m), "ORDER_UPDATE")
        /\ UNCHANGED <<storePc, scanRows>>

TransferFailed ==
    \E m \in TransferFailures :
        /\ StoreCommit(HandleTransferFailed(StoreState, m), "TRANSFER_FAILED")
        /\ UNCHANGED <<storePc, scanRows>>

(* the bus hands the store the messages the last step sent to it *)
DeliverToStore ==
    LET msgs == SelectSeq(sent, LAMBDA x : x.recipient = StoreId)
    IN /\ msgs # <<>>
       /\ StoreCommit([st |-> StoreReceiveAll(StoreState, msgs),
                       resp |-> NoResponse], "store_receive")
       /\ UNCHANGED <<storePc, scanRows>>

CreateOrderCall ==
    \E items \in ItemLists :
        /\ StoreCommit(CreateOrder(StoreState, items), "create_order")
        /\ UNCHANGED <<storePc, scanRows>>

(* run_cycle up to its first suspension: the pending sales, then the query of
   the rows to scan; with no row the cycle runs through _update_orders *)
StoreCycleStart ==
    /\ storePc = "idle"
    /\ LET sold == ProcessPendingSales(StoreState)
           rows == InventoryRows(sold.inv)
       IN /\ StoreCommit([st |-> IF rows = <<>> THEN UpdateOrders(sold) ELSE sold,
                          resp |-> NoResponse], "run_cycle")
          /\ scanRows' = rows
          /\ storePc' = IF rows = <<>> THEN "idle" ELSE "scan"

(* the forecast provider answers for the next row; after the last row the
   cycle runs through _update_orders *)
StoreCycleScan ==
    /\ storePc = "scan"
    /\ \E predicted_demand \in Forecasts :
         LET scanned == CheckInventoryRow(StoreState, Head(scanRows), predicted_demand)
             last == Tail(scanRows) = <<>>
         IN /\ StoreCommit([st |-> IF last THEN UpdateOrders(scanned) ELSE scanned,
                            resp |-> NoResponse], "run_cycle")
            /\ scanRows' = Tail(scanRows)
            /\ storePc' = IF last THEN "idle" ELSE "scan"

(* the transfer a request led to is written into its reference_id
   (store_agent.py:540, "Will be filled when we get a response") *)
RecordTransferReference ==
    \E i \in 1..Len(pending_replenishments), t \in {TransferIds[1], TransferIds[2]} :
        /\ pending_replenishments' =
               [pending_replenishments EXCEPT ![i].reference_id = t]
        /\ lastOp' = "reference"
        /\ resp' = Outcome(NoResponse)
        /\ sent' = <<>>
        /\ UNCHANGED <<now, ticks, invS, ledger, orders, pending_transactions,
                       storePc, scanRows, reissues, warehouseVars, supplierVars,
                       loopVars>>

(* _check_inventory_levels on one row, for a store whose row holds quantity
   and whose pending_replenishments is pending when the forecast arrives *)
ScanPending ==
    {<<>>} \cup
    {<<[request_id |-> RequestIds[1], product_id |-> ProductOrder[1],
        quantity |-> q, priority |-> "HIGH", status |-> status,
        retry_count |-> 0, reference_id |-> None]>> :
       q \in 1..MaxQty, status \in {"pending", "fulfilled"}}

CheckInventoryLevelsCall ==
    \E quantity \in 0..MaxScanQty, pending \in ScanPending,
       predicted_demand \in 0..MaxForecast :
        LET p == ProductOrder[1]
            scanned == CheckInventoryRow(
                           [StoreState EXCEPT !.inv = [x \in {p} |-> quantity],
                                              !.pr = pending],
                           p, predicted_demand)
        IN /\ invS' = scanned.inv
           /\ pending_replenishments' = scanned.pr
           /\ sent' = scanned.sent
           /\ resp' = [status |-> "scanned",
                       ref |-> [product_id |-> p, quantity |-> quantity,
                                pending |-> pending,
                                predicted_demand |-> predicted_demand]]
           /\ lastOp' = "check_inventory_levels"
           /\ UNCHANGED <<now, ticks, ledger, orders, pending_transactions, storePc,
                          scanRows, reissues, warehouseVars, supplierVars, loopVars>>

StoreTick ==
    /\ ticks < MaxTicks
    /\ ticks' = ticks + 1
    /\ now' = now + PickupMinutes + 1
    /\ UNCHANGED <<invS, ledger, orders, pending_transactions,
                   pending_replenishments, storePc, scanRows, reissues,
                   warehouseVars, supplierVars, loopVars, sent, resp, lastOp>>


-----------------------------------------------------------------------------
(* Warehouse agent *)

WarehouseState ==
    [inv |-> invW, ledger |-> ledger, pt |-> pending_transfers,
     tp |-> transfer_priorities, po |-> wh_pending_orders,
     n |-> nTransfers, ns |-> nSupply, sent |-> <<>>, log |-> <<>>]

BaseScore(priority) ==
    IF priority = "HIGH" THEN 100
    ELSE IF priority = "MEDIUM" THEN 50
    ELSE IF priority = "LOW" THEN 10
    ELSE 50

(* min(2.0, unit_price / 100.0 + 0.5), in hundredths *)
ValueFactor(p) == Min(200, unit_price[p] + 50)

(* base_score * min(1.0, available / requested) * value_factor as the exact
   fraction num / den, for requested_quantity > 0 *)
CalculatePriorityScore(priority, p, available_quantity, requested_quantity) ==
    [num |-> BaseScore(priority) * Min(available_quantity, requested_quantity)
               * ValueFactor(p),
     den |-> requested_quantity * 100]

ScoreGreater(a, b) == a.num * b.den > b.num * a.den

ScoreLess(a, b) == a.num * b.den < b.num * a.den

SupplyRequestMsg(p, q, store_id) ==
    [recipient |-> "supplier_agent", message_type |-> "SUPPLY_REQUEST",
     product_id |-> p, quantity |-> q, warehouse_id |-> WarehouseId,
     store_id |-> store_id]

RequestFromSupplier(wst, p, q, store_id) ==
    [wst EXCEPT !.sent = Append(@, SupplyRequestMsg(p, q, store_id)),
                !.po = Append(@, [order_id |-> SupplyIds[wst.ns + 1],
                                  product_id |-> p, quantity |-> q,
                                  store_id |-> store_id, status |-> "REQUESTED"]),
                !.ns = @ + 1]

NewTransfer(wst, m, available_quantity) ==
    [wst EXCEPT !.pt = Put(@, TransferIds[wst.n + 1],
                           [product_id |-> m.product_id, store_id |-> m.store_id,
                            requested_quantity |-> m.quantity,
                            available_quantity |-> available_quantity,
                            priority |-> m.priority, status |-> "PENDING"]),
                !.n = @ + 1]

NotIndexed(wst, tid, score) == wst

Indexed(wst, tid, score) ==
    [wst EXCEPT !.tp = IF \E i \in 1..Len(@) : @[i].transfer_id = tid
                       THEN [i \in 1..Len(@) |->
                               IF @[i].transfer_id = tid
                               THEN [transfer_id |-> tid, score |-> score]
                               ELSE @[i]]
                       ELSE Append(@, [transfer_id |-> tid, score |-> score])]

(* a requested quantity of 0 with a row present takes the last branch, where
   _calculate_priority_score divides by it after the record is stored: the
   handler raises and the drain loop logs it *)
HandleInventoryRequest(wst, m) ==
    LET transfer_id == TransferIds[wst.n + 1]
    IN IF m.product_id \notin Products
       THEN [st |-> wst, resp |-> Response("REJECTED", None, <<>>, 0)]
       ELSE IF m.product_id \notin DOMAIN wst.inv
               \/ wst.inv[m.product_id] < m.quantity
       THEN LET available_quantity == Available(wst.inv, m.product_id)
            IN IF available_quantity > 0
               THEN [st |-> Indexed(NewTransfer(wst, m, available_quantity),
                                    transfer_id,
                                    CalculatePriorityScore(m.priority, m.product_id,
                                        available_quantity, m.quantity)),
                     resp |-> Response("PARTIAL", transfer_id, <<>>,
                                       available_quantity)]
               ELSE [st |-> RequestFromSupplier(wst, m.product_id, m.quantity,
                                                m.store_id),
                     resp |-> Response("BACKORDERED", None, <<>>,
                                       available_quantity)]
       ELSE IF m.quantity = 0
       THEN [st |-> NewTransfer(wst, m, m.quantity),
             resp |-> Response("raised", None, <<>>, 0)]
       ELSE [st |-> Indexed(NewTransfer(wst, m, m.quantity), transfer_id,
                            CalculatePriorityScore(m.priority, m.product_id,
                                                   m.quantity, m.quantity)),
             resp |-> Response("APPROVED", transfer_id, <<>>, m.quantity)]

AvailableMsg(order, item) ==
    [recipient |-> order.store_id, message_type |-> "INVENTORY_AVAILABLE",
     product_id |-> item.product_id, quantity |-> item.quantity,
     order_id |-> order.order_id]

HandleSupplyConfirmation(wst, m) ==
    IF \E i \in 1..Len(wst.po) : wst.po[i].order_id = m.order_id
    THEN LET i == CHOOSE j \in 1..Len(wst.po) : wst.po[j].order_id = m.order_id
             order_data == wst.po[i]
             items == IF "items" \in DOMAIN m THEN m.items ELSE <<>>
         IN IF m.status = "DELIVERED"
            THEN [st |-> [wst EXCEPT
                            !.sent = IF order_data.store_id # None
                                     THEN @ \o [k \in 1..Len(items) |->
                                                  AvailableMsg(order_data, items[k])]
                                     ELSE @,
                            !.po = SelectSeq(@, LAMBDA o : o.order_id # m.order_id)],
                  resp |-> NoResponse]
            ELSE [st |-> [wst EXCEPT !.po[i].status = m.status],
                  resp |-> NoResponse]
    ELSE [st |-> wst, resp |-> NoResponse]

TransferUpdateMsg(tid, transfer_data, reason) ==
    [recipient |-> transfer_data.store_id, message_type |-> "TRANSFER_UPDATE",
     transfer_id |-> tid, product_id |-> transfer_data.product_id,
     status |-> "FAILED", reason |-> reason]

Without(f, k) == [x \in (DOMAIN f) \ {k} |-> f[x]]

HandleTransferStatusUpdate(wst, m) ==
    IF m.transfer_id \in DOMAIN wst.pt
    THEN IF m.status \in {"COMPLETED", "FAILED"}
         THEN [st |-> [wst EXCEPT
                         !.sent = IF m.status = "FAILED"
                                  THEN Append(@, TransferUpdateMsg(m.transfer_id,
                                                   wst.pt[m.transfer_id], m.reason))
                                  ELSE @,
                         !.pt = Without(@, m.transfer_id),
                         !.tp = SelectSeq(@, LAMBDA e :
                                               e.transfer_id # m.transfer_id)],
               resp |-> NoResponse]
         ELSE [st |-> [wst EXCEPT !.pt[m.transfer_id].status = m.status],
               resp |-> NoResponse]
    ELSE [st |-> wst, resp |-> NoResponse]

(* process_message of the warehouse *)
WarehouseProcessMessage(wst, message_type, content) ==
    IF message_type = "INVENTORY_REQUEST" THEN HandleInventoryRequest(wst, content)
    ELSE IF message_type = "SUPPLY_CONFIRMATION"
    THEN HandleSupplyConfirmation(wst, content)
    ELSE IF message_type = "TRANSFER_STATUS_UPDATE"
    THEN HandleTransferStatusUpdate(wst, content)
    ELSE [st |-> wst, resp |-> NoResponse]

(* the messages of a batch that are addressed to the warehouse agent, handled
   one after the other in the order sent *)
RECURSIVE WarehouseReceiveAll(_, _)
WarehouseReceiveAll(wst, msgs) ==
    IF msgs = <<>> THEN wst
    ELSE WarehouseReceiveAll(
           WarehouseProcessMessage(wst, Head(msgs).message_type, Head(msgs)).st,
           Tail(msgs))

AlreadyOrdered(po, p) ==
    \E i \in 1..Len(po) :
        po[i].product_id = p /\ po[i].status \in {"PENDING", "CONFIRMED", "SHIPPED"}

RECURSIVE CheckStockLevels(_, _)
CheckStockLevels(wst, rows) ==
    IF rows = <<>> THEN wst
    ELSE LET p == Head(rows)
             quantity_to_order == maximum_stock[p] - wst.inv[p]
             next == IF wst.inv[p] < minimum_stock[p]
                        /\ ~AlreadyOrdered(wst.po, p) /\ quantity_to_order > 0
                     THEN RequestFromSupplier(wst, p, quantity_to_order, None)
                     ELSE wst
         IN CheckStockLevels(next, Tail(rows))

(* sorted(..., key = score, reverse = True): stable, so entries of equal
   score keep their insertion order *)
RECURSIVE InsertByScore(_, _)
InsertByScore(sorted, e) ==
    IF sorted = <<>> THEN <<e>>
    ELSE IF ScoreLess(Head(sorted).score, e.score)
         THEN <<e>> \o sorted
         ELSE <<Head(sorted)>> \o InsertByScore(Tail(sorted), e)

RECURSIVE SortedTransfers(_)
SortedTransfers(tp) ==
    IF tp = <<>> THEN <<>>
    ELSE InsertByScore(SortedTransfers(SubSeq(tp, 1, Len(tp) - 1)), tp[Len(tp)])

TransferInitiatedMsg(tid, transfer_data) ==
    [recipient |-> transfer_data.store_id, message_type |-> "TRANSFER_INITIATED",
     transfer_id |-> tid, product_id |-> transfer_data.product_id,
     quantity |-> transfer_data.available_quantity]

Visit(tid, score, stock, outcome) ==
    [transfer_id |-> tid, score |-> score, stock |-> stock, outcome |-> outcome]

ExecuteTransferPartially(wst, e) ==
    LET tid == e.transfer_id
    IN IF tid \notin DOMAIN wst.pt THEN wst
       ELSE IF wst.pt[tid].status # "PENDING" THEN wst
       ELSE LET transfer_data == wst.pt[tid]
                p == transfer_data.product_id
                stock == Available(wst.inv, p)
                quantity == Min(transfer_data.available_quantity, stock)
            IN IF quantity = 0
               THEN [wst EXCEPT
                       !.pt[tid].status = "FAILED",
                       !.sent = Append(@, TransferUpdateMsg(tid, transfer_data,
                                                            "Insufficient inventory")),
                       !.log = Append(@, Visit(tid, e.score, stock, "FAILED"))]
               ELSE [wst EXCEPT
                       !.inv[p] = @ - quantity,
                       !.ledger = Append(@, Entry(p, -quantity, "TRANSFER",
                                                  WarehouseId, tid)),
                       !.pt[tid].status = "IN_TRANSIT",
                       !.sent = Append(@, TransferInitiatedMsg(tid, transfer_data)),
                       !.log = Append(@, Visit(tid, e.score, stock, "IN_TRANSIT"))]

ExecuteTransfer(wst, e) ==
    LET tid == e.transfer_id
    IN IF tid \notin DOMAIN wst.pt THEN wst
       ELSE IF wst.pt[tid].status # "PENDING" THEN wst
       ELSE LET transfer_data == wst.pt[tid]
                p == transfer_data.product_id
                quantity == transfer_data.available_quantity
                stock == Available(wst.inv, p)
            IN IF p \notin DOMAIN wst.inv \/ wst.inv[p] < quantity
               THEN [wst EXCEPT
                       !.pt[tid].status = "FAILED",
                       !.sent = Append(@, TransferUpdateMsg(tid, transfer_data,
                                                            "Insufficient inventory")),
                       !.log = Append(@, Visit(tid, e.score, stock, "FAILED"))]
               ELSE [wst EXCEPT
                       !.inv[p] = @ - quantity,
                       !.ledger = Append(@, Entry(p, -quantity, "TRANSFER",
                                                  WarehouseId, tid)),
                       !.pt[tid].status = "IN_TRANSIT",
                       !.sent = Append(@, TransferInitiatedMsg(tid, transfer_data)),
                       !.log = Append(@, Visit(tid, e.score, stock, "IN_TRANSIT"))]

RECURSIVE ExecuteAll(_, _)
ExecuteAll(wst, entries) ==
    IF entries = <<>> THEN wst
    ELSE ExecuteAll(ExecuteTransfer(wst, Head(entries)), Tail(entries))

ProcessPendingTransfers(wst) ==
    IF DOMAIN wst.pt = {} THEN wst
    ELSE ExecuteAll(wst, SortedTransfers(wst.tp))

WarehouseRunCycle(wst) ==
    ProcessPendingTransfers(CheckStockLevels(wst, InventoryRows(wst.inv)))

(* Inputs of the warehouse *)

InventoryRequests ==
    [product_id : Products \cup {"P3"}, quantity : 1..MaxQty,
     store_id : {StoreId}, priority : {"HIGH", "MEDIUM", "LOW"}]
    \cup [product_id : {ProductOrder[1]}, quantity : {0},
          store_id : {StoreId}, priority : {"MEDIUM"}]

TransferStatusUpdates ==
    [transfer_id : {TransferIds[i] : i \in 1..MaxTransfers},
     status : {"COMPLETED", "FAILED"}, reason : {"Unknown reason"}]

SupplyConfirmations ==
    [order_id : {SupplyIds[i] : i \in 1..MaxSupply},
     status : {"CONFIRMED", "DELIVERED"},
     items : {<<Item(ProductOrder[1], 1)>>}]

WarehouseCommit(r, op) ==
    /\ r.st.n <= MaxTransfers
    /\ r.st.ns <= MaxSupply
    /\ invW' = r.st.inv
    /\ ledger' = r.st.ledger
    /\ pending_transfers' = r.st.pt
    /\ transfer_priorities' = r.st.tp
    /\ wh_pending_orders' = r.st.po
    /\ nTransfers' = r.st.n
    /\ nSupply' = r.st.ns
    /\ execLog' = r.st.log
    /\ sent' = r.st.sent
    /\ resp' = Outcome(r.resp)
    /\ lastOp' = op
    /\ UNCHANGED <<now, ticks, storeVars, supplierVars, loopVars>>

InventoryRequest ==
    \E m \in InventoryRequests :
        WarehouseCommit(HandleInventoryRequest(WarehouseState, m), "INVENTORY_REQUEST")

TransferStatusUpdate ==
    \E m \in TransferStatusUpdates :
        WarehouseCommit(HandleTransferStatusUpdate(WarehouseState, m),
                        "TRANSFER_STATUS_UPDATE")

SupplyConfirmation ==
    \E m \in SupplyConfirmations :
        WarehouseCommit(HandleSupplyConfirmation(WarehouseState, m),
                        "SUPPLY_CONFIRMATION")

(* the INVENTORY_UPDATE that credits the store with an executed transfer; the
   bus delivers it at least once *)
TransferDeliveries ==
    {[product_id |-> pending_transfers[t].product_id,
      quantity |-> pending_transfers[t].available_quantity,
      update_type |-> "ADD", request_id |-> None, transfer_id |-> t] :
        t \in {x \in DOMAIN pending_transfers :
                 pending_transfers[x].status = "IN_TRANSIT"}}

DeliverTransfer ==
    \E m \in TransferDeliveries :
        /\ StoreCommit(HandleInventoryUpdate(StoreState, m), "INVENTORY_UPDATE")
        /\ UNCHANGED <<storePc, scanRows>>

(* the bus hands the warehouse the messages the last step sent to it *)
DeliverToWarehouse ==
    LET msgs == SelectSeq(sent, LAMBDA x :
                    x.recipient \in {"warehouse_agent_main", WarehouseId})
    IN /\ msgs # <<>>
       /\ WarehouseCommit([st |-> WarehouseReceiveAll(WarehouseState, msgs),
                           resp |-> NoResponse], "warehouse_receive")

WarehouseCycle ==
    WarehouseCommit([st |-> WarehouseRunCycle(WarehouseState), resp |-> NoResponse],
                    "warehouse_cycle")


-----------------------------------------------------------------------------
(* Supplier agent *)

HourMinutes == 60
DayMinutes == 1440
ReapDays == 30
DeliveryWindowMinutes == 5

(* Supplier rows in query order; reliability and cost_factor in hundredths *)
Suppliers ==
    <<[id |-> "SA", products |-> {"P1", "P2"}, max_capacity |-> MaxQty,
       lead_time_days |-> 2, reliability |-> 90, cost_factor |-> 100],
      [id |-> "SB", products |-> {"P1"}, max_capacity |-> 1,
       lead_time_days |-> 1, reliability |-> 80, cost_factor |-> 120]>>

(* lead_time_days * 0.4 + (1 - reliability) * 0.4 + cost_factor * 0.2,
   times 500 *)
SupplierScoreWithoutCost(supplier) ==
    supplier.lead_time_days * 200 + (100 - supplier.reliability) * 2

SupplierScore(supplier) ==
    supplier.lead_time_days * 200 + (100 - supplier.reliability) * 2
        + supplier.cost_factor

(* _select_best_supplier over the rows the query returns; min() keeps the
   first of the rows of lowest score *)
SelectBestAmong(suppliers, p, quantity) ==
    LET scored == SelectSeq(suppliers, LAMBDA x :
                      p \in x.products /\ ~(x.max_capacity < quantity))
    IN IF scored = <<>> THEN [id |-> None]
       ELSE scored[CHOOSE i \in 1..Len(scored) :
                     /\ \A j \in 1..Len(scored) :
                          SupplierScore(scored[i]) <= SupplierScore(scored[j])
                     /\ \A j \in 1..(i - 1) :
                          SupplierScore(scored[j]) > SupplierScore(scored[i])]

SelectBestSupplier(p, quantity) == SelectBestAmong(Suppliers, p, quantity)

SupplierState == [po |-> sup_pending_orders, sent |-> <<>>]

RECURSIVE EnrichItemsUntilSkip(_)
EnrichItemsUntilSkip(items) ==
    IF items = <<>> THEN <<>>
    ELSE LET item == Head(items)
             supplier == SelectBestSupplier(item.product_id, item.quantity)
         IN IF item.product_id = None \/ item.quantity = 0 \/ item.unit_price = 0
               \/ item.product_id \notin Products \/ supplier.id = None
            THEN <<>>
            ELSE <<[product_id |-> item.product_id,
                    quantity |-> item.quantity,
                    unit_price |-> item.unit_price,
                    supplier_id |-> supplier.id,
                    lead_time_days |-> supplier.lead_time_days]>>
                 \o EnrichItemsUntilSkip(Tail(items))

RECURSIVE EnrichItems(_)
EnrichItems(items) ==
    IF items = <<>> THEN <<>>
    ELSE LET item == Head(items)
             rest == EnrichItems(Tail(items))
         IN IF item.product_id = None \/ item.quantity = 0 \/ item.unit_price = 0
            THEN rest
            ELSE IF item.product_id \notin Products THEN rest
            ELSE LET supplier == SelectBestSupplier(item.product_id, item.quantity)
                 IN IF supplier.id = None THEN rest
                    ELSE <<[product_id |-> item.product_id,
                            quantity |-> item.quantity,
                            unit_price |-> item.unit_price,
                            supplier_id |-> supplier.id,
                            lead_time_days |-> supplier.lead_time_days]>> \o rest

RECURSIVE MaxLeadTime(_)
MaxLeadTime(items) ==
    IF items = <<>> THEN 0
    ELSE Max(Head(items).lead_time_days, MaxLeadTime(Tail(items)))

Update(status, timestamp) == [status |-> status, timestamp |-> timestamp]

ConfirmationMsg(order_id, warehouse_id, status) ==
    [recipient |-> warehouse_id, message_type |-> "SUPPLY_CONFIRMATION",
     order_id |-> order_id, status |-> status]

HandlePurchaseOrder(sst, m) ==
    IF m.order_id = None \/ m.items = <<>> \/ m.warehouse_id = None
    THEN [st |-> sst, resp |-> Response("error", None, <<>>, 0)]
    ELSE LET enriched_items == EnrichItems(m.items)
         IN IF enriched_items = <<>>
            THEN [st |-> sst, resp |-> Response("error", None, <<>>, 0)]
            ELSE [st |-> [sst EXCEPT
                            !.po = Put(@, m.order_id,
                                [items |-> enriched_items,
                                 warehouse_id |-> m.warehouse_id,
                                 status |-> "PLACED",
                                 timestamp |-> now,
                                 expected_delivery |->
                                     now + MaxLeadTime(enriched_items) * DayMinutes,
                                 updates |-> <<Update("PLACED", now)>>]),
                            !.sent = Append(@, ConfirmationMsg(m.order_id,
                                                   m.warehouse_id, "PLACED"))],
                  resp |-> Response("success", m.order_id, <<>>, 0)]

HandleOrderFollowup(sst, m) ==
    IF m.order_id = None
    THEN [st |-> sst, resp |-> Response("error", None, <<>>, 0)]
    ELSE IF m.order_id \notin DOMAIN sst.po
    THEN [st |-> sst, resp |-> Response("error", m.order_id, <<>>, 0)]
    ELSE [st |-> [sst EXCEPT
                    !.sent = Append(@, ConfirmationMsg(m.order_id,
                                 sst.po[m.order_id].warehouse_id,
                                 sst.po[m.order_id].status))],
          resp |-> Response("success", m.order_id, <<>>, 0)]

MayCancelUnlessDelivered(order) == order.status # "DELIVERED"

MayCancel(order) == order.status \notin {"SHIPPED", "DELIVERED"}

HandleOrderCancellation(sst, m) ==
    IF m.order_id = None
    THEN [st |-> sst, resp |-> Response("error", None, <<>>, 0)]
    ELSE IF m.order_id \notin DOMAIN sst.po
    THEN [st |-> sst, resp |-> Response("error", m.order_id, <<>>, 0)]
    ELSE IF ~MayCancel(sst.po[m.order_id])
    THEN [st |-> sst, resp |-> Response("error", m.order_id, <<>>, 0)]
    ELSE [st |-> [sst EXCEPT
                    !.po[m.order_id].status = "CANCELLED",
                    !.po[m.order_id].updates = Append(@, Update("CANCELLED", now)),
                    !.sent = Append(@, ConfirmationMsg(m.order_id,
                                 sst.po[m.order_id].warehouse_id, "CANCELLED"))],
          resp |-> Response("success", m.order_id, <<>>, 0)]

(* process_message of the supplier *)
SupplierProcessMessage(sst, message_type, content) ==
    IF message_type = "PURCHASE_ORDER" THEN HandlePurchaseOrder(sst, content)
    ELSE IF message_type = "ORDER_FOLLOWUP" THEN HandleOrderFollowup(sst, content)
    ELSE IF message_type = "ORDER_CANCELLATION"
    THEN HandleOrderCancellation(sst, content)
    ELSE [st |-> sst, resp |-> NoResponse]

Last(seq) == seq[Len(seq)]

(* random.randint(lo, hi): the draw is the lowest or the highest value, which
   between them give every outcome of the comparison it enters *)
Draw(roll, lo, hi) == IF roll = "lo" THEN lo ELSE hi

NextStatusOnShipment(order, draw) ==
    LET time_since_update == now - Last(order.updates).timestamp
    IN IF order.status = "PLACED"
          /\ time_since_update > Draw(draw.roll, 1, 4) * HourMinutes
       THEN "CONFIRMED"
       ELSE IF order.status = "CONFIRMED"
               /\ time_since_update > Draw(draw.roll, 6, 24) * HourMinutes
       THEN "PROCESSING"
       ELSE IF order.status = "PROCESSING"
               /\ time_since_update > Draw(draw.roll, 1, 3) * DayMinutes
       THEN "SHIPPED"
       ELSE IF order.status = "SHIPPED"
       THEN "DELIVERED"
       ELSE order.status

NextStatusWithinThreshold(order, draw) ==
    LET time_since_update == now - Last(order.updates).timestamp
    IN IF order.status = "PLACED"
          /\ time_since_update > Draw(draw.roll, 1, 4) * HourMinutes
       THEN "CONFIRMED"
       ELSE IF order.status = "CONFIRMED"
               /\ time_since_update > Draw(draw.roll, 6, 24) * HourMinutes
       THEN "PROCESSING"
       ELSE IF order.status = "PROCESSING"
               /\ time_since_update < Draw(draw.roll, 1, 3) * DayMinutes
       THEN "SHIPPED"
       ELSE IF order.status = "SHIPPED" /\ now >= order.expected_delivery
       THEN "DELIVERED"
       ELSE order.status

(* _update_order_statuses for one order; draw holds the order's random
   numbers of this pass *)
NextStatus(order, draw) ==
    LET time_since_update == now - Last(order.updates).timestamp
    IN IF order.status = "PLACED"
          /\ time_since_update > Draw(draw.roll, 1, 4) * HourMinutes
       THEN "CONFIRMED"
       ELSE IF order.status = "CONFIRMED"
               /\ time_since_update > Draw(draw.roll, 6, 24) * HourMinutes
       THEN "PROCESSING"
       ELSE IF order.status = "PROCESSING"
               /\ time_since_update > Draw(draw.roll, 1, 3) * DayMinutes
       THEN "SHIPPED"
       ELSE IF order.status = "SHIPPED" /\ now >= order.expected_delivery
       THEN "DELIVERED"
       ELSE order.status

SupplierOrderIds == <<"PO1", "PO2", "PO3">>

RECURSIVE UpdateOrderStatusesQuietly(_, _, _)
UpdateOrderStatusesQuietly(sst, ids, draws) ==
    IF ids = <<>> THEN sst
    ELSE LET o == Head(ids)
             order == sst.po[o]
             new_status == NextStatus(order, draws[o])
             next ==
               IF order.status \in {"DELIVERED", "CANCELLED", "REJECTED"}
               THEN IF now - Last(order.updates).timestamp > ReapDays * DayMinutes
                    THEN [sst EXCEPT !.po = Without(@, o)]
                    ELSE sst
               ELSE IF new_status # order.status
               THEN [sst EXCEPT
                       !.po[o].status = new_status,
                       !.po[o].expected_delivery =
                           IF new_status = "SHIPPED"
                           THEN now + Draw(draws[o].delivery, 1, 3) * DayMinutes
                           ELSE @,
                       !.po[o].updates = Append(@, Update(new_status, now))]
               ELSE sst
         IN UpdateOrderStatusesQuietly(next, Tail(ids), draws)

RECURSIVE UpdateOrderStatuses(_, _, _)
UpdateOrderStatuses(sst, ids, draws) ==
    IF ids = <<>> THEN sst
    ELSE LET o == Head(ids)
             order == sst.po[o]
             new_status == NextStatus(order, draws[o])
             next ==
               IF order.status \in {"DELIVERED", "CANCELLED", "REJECTED"}
               THEN IF now - Last(order.updates).timestamp > ReapDays * DayMinutes
                    THEN [sst EXCEPT !.po = Without(@, o)]
                    ELSE sst
               ELSE IF new_status # order.status
               THEN [sst EXCEPT
                       !.po[o].status = new_status,
                       !.po[o].expected_delivery =
                           IF new_status = "SHIPPED"
                           THEN now + Draw(draws[o].delivery, 1, 3) * DayMinutes
                           ELSE @,
                       !.po[o].updates = Append(@, Update(new_status, now)),
                       !.sent = Append(@, ConfirmationMsg(o, order.warehouse_id,
                                                          new_status))]
               ELSE sst
         IN UpdateOrderStatuses(next, Tail(ids), draws)

RECURSIVE ProcessDeliveries(_, _)
ProcessDeliveries(sst, ids) ==
    IF ids = <<>> THEN sst
    ELSE LET o == Head(ids)
             order == sst.po[o]
             next == IF order.status = "DELIVERED"
                        /\ Last(order.updates).status = "DELIVERED"
                        /\ now - Last(order.updates).timestamp < DeliveryWindowMinutes
                     THEN [sst EXCEPT !.sent =
                             Append(@, [recipient |-> order.warehouse_id,
                                        message_type |-> "SUPPLY_CONFIRMATION",
                                        order_id |-> o, status |-> "DELIVERED",
                                        items |->
                                          [k \in 1..Len(order.items) |->
                                             [product_id |-> order.items[k].product_id,
                                              quantity |-> order.items[k].quantity,
                                              unit_price |-> order.items[k].unit_price]]])]
                     ELSE sst
         IN ProcessDeliveries(next, Tail(ids))

PendingOrderIds(po) ==
    SelectSeq(SupplierOrderIds \o SupplyIds, LAMBDA o : o \in DOMAIN po)

SupplierRunCycle(sst, draws) ==
    LET updated == UpdateOrderStatuses(sst, PendingOrderIds(sst.po), draws)
    IN ProcessDeliveries(updated, PendingOrderIds(updated.po))

(* Inputs of the supplier *)

PurchaseItems ==
    {<<>>}
    \cup {<<[product_id |-> p, quantity |-> q, unit_price |-> unit_price[ProductOrder[1]]]>> :
            p \in {ProductOrder[1], "P3"}, q \in {0, 1, MaxQty, MaxQty + 1}}

PurchaseOrders ==
    [order_id : {SupplierOrderIds[i] : i \in 1..MaxSupplierOrders},
     items : PurchaseItems, warehouse_id : {WarehouseId}]
    \cup [order_id : {None}, items : {<<>>}, warehouse_id : {None}]

OrderQueries == [order_id : {None, SupplierOrderIds[1], SupplierOrderIds[2]}]

Draws(po) == [DOMAIN po -> [roll : {"lo", "hi"}, delivery : {"lo", "hi"}]]

TickSizes == {DayMinutes + 1, ReapDays * DayMinutes + 1}

SupplierCommit(r, op) ==
    /\ \A o \in DOMAIN r.st.po : Len(r.st.po[o].updates) <= MaxUpdates
    /\ sup_pending_orders' = r.st.po
    /\ sent' = r.st.sent
    /\ resp' = Outcome(r.resp)
    /\ lastOp' = op
    /\ UNCHANGED <<now, ticks, ledger, storeVars, warehouseVars, loopVars>>

PurchaseOrder ==
    \E m \in PurchaseOrders :
        SupplierCommit(HandlePurchaseOrder(SupplierState, m), "PURCHASE_ORDER")

OrderFollowup ==
    \E m \in OrderQueries :
        SupplierCommit(HandleOrderFollowup(SupplierState, m), "ORDER_FOLLOWUP")

OrderCancellation ==
    \E m \in OrderQueries :
        SupplierCommit(HandleOrderCancellation(SupplierState, m),
                       "ORDER_CANCELLATION")

(* the purchase order that stands for a supply request of the warehouse; it
   carries the id under which the warehouse tracks the request *)
PlaceSupplyOrder ==
    \E i \in 1..Len(wh_pending_orders) :
        LET request == wh_pending_orders[i]
        IN SupplierCommit(
             SupplierProcessMessage(SupplierState, "PURCHASE_ORDER",
                 [order_id |-> request.order_id,
                  items |-> <<[product_id |-> request.product_id,
                               quantity |-> request.quantity,
                               unit_price |-> unit_price[request.product_id]]>>,
                  warehouse_id |-> WarehouseId]),
             "PURCHASE_ORDER")

(* the bus hands the supplier a message the last step sent to it *)
DeliverToSupplier ==
    \E k \in 1..Len(sent) :
        /\ sent[k].recipient = "supplier_agent"
        /\ SupplierCommit(SupplierProcessMessage(SupplierState,
                              sent[k].message_type, sent[k]),
                          "supplier_receive")

SupplierCycle ==
    \E draws \in Draws(sup_pending_orders) :
        SupplierCommit([st |-> SupplierRunCycle(SupplierState, draws),
                        resp |-> NoResponse], "supplier_cycle")

(* Supplier tables of up to two rows: a row carries the product asked for or
   another one, has capacity 1 or MaxQty, and lead time, reliability and
   cost factor that give equal, lower and higher scores *)
SupplierRows(id) ==
    {[id |-> id, products |-> {p}, max_capacity |-> c,
      lead_time_days |-> t[1], reliability |-> t[2], cost_factor |-> t[3]] :
        p \in Products, c \in {1, MaxQty},
        t \in {<<1, 80, 100>>, <<1, 90, 120>>, <<1, 90, 140>>, <<2, 90, 100>>}}

SupplierTables ==
    {<<>>} \cup {<<a>> : a \in SupplierRows("SA")}
           \cup {<<a, b>> : a \in SupplierRows("SA"), b \in SupplierRows("SB")}

SelectBestSupplierCall ==
    \E suppliers \in SupplierTables, quantity \in 1..MaxQty :
        /\ resp' = [status |-> "selected",
                    ref |-> [suppliers |-> suppliers,
                             product_id |-> ProductOrder[1],
                             quantity |-> quantity,
                             supplier |-> SelectBestAmong(suppliers, ProductOrder[1],
                                                          quantity)]]
        /\ lastOp' = "select_best_supplier"
        /\ sent' = <<>>
        /\ UNCHANGED <<now, ticks, ledger, storeVars, warehouseVars, supplierVars,
                       loopVars>>

SupplierTick ==
    /\ ticks < MaxSupplierTicks
    /\ \E d \in TickSizes : now' = now + d
    /\ ticks' = ticks + 1
    /\ UNCHANGED <<ledger, storeVars, warehouseVars, supplierVars, loopVars,
                   sent, resp, lastOp>>

-----------------------------------------------------------------------------
(* Agent: the two loops that start() gathers (base.py).  process_message and
   run_cycle are abstract there: an invocation returns a response, returns
   None, or raises *)

Outcomes == {"response", "none", "raised"}

MessageIds == <<"M1", "M2", "M3", "M4", "M5">>

Received == Len(handled) + Len(message_queue) + (IF current = None THEN 0 ELSE 1)

LoopStep(op) ==
    /\ lastOp' = op
    /\ resp' = Outcome(NoResponse)
    /\ UNCHANGED <<now, ticks, ledger, storeVars, warehouseVars, supplierVars>>

Start ==
    /\ drainPc = "off" /\ cyclePc = "off"
    /\ running' = TRUE
    /\ drainPc' = "check"
    /\ cyclePc' = "check"
    /\ sent' = <<>>
    /\ LoopStep("start")
    /\ UNCHANGED <<message_queue, current, handled, cycles, sinceStop>>

Stop ==
    /\ running' = FALSE
    /\ sinceStop' = IF running THEN [process_message |-> 0, run_cycle |-> 0]
                    ELSE sinceStop
    /\ sent' = <<>>
    /\ LoopStep("stop")
    /\ UNCHANGED <<message_queue, drainPc, cyclePc, current, handled, cycles>>

ReceiveMessage ==
    /\ Received < MaxMessages
    /\ message_queue' = Append(message_queue, MessageIds[Received + 1])
    /\ sent' = <<>>
    /\ LoopStep("receive_message")
    /\ UNCHANGED <<running, drainPc, cyclePc, current, handled, cycles, sinceStop>>

(* while self.running *)
DrainCheck ==
    /\ drainPc = "check"
    /\ drainPc' = IF running THEN "wait" ELSE "done"
    /\ sent' = <<>>
    /\ LoopStep("drain")
    /\ UNCHANGED <<running, message_queue, cyclePc, current, handled, cycles,
                   sinceStop>>

DrainGetNewest ==
    /\ drainPc = "wait"
    /\ message_queue # <<>>
    /\ current' = Last(message_queue)
    /\ message_queue' = SubSeq(message_queue, 1, Len(message_queue) - 1)
    /\ drainPc' = "handle"
    /\ sent' = <<>>
    /\ LoopStep("drain")
    /\ UNCHANGED <<running, cyclePc, handled, cycles, sinceStop>>

(* wait_for(self.message_queue.get(), timeout=1.0) returns a message *)
DrainGet ==
    /\ drainPc = "wait"
    /\ message_queue # <<>>
    /\ current' = Head(message_queue)
    /\ message_queue' = Tail(message_queue)
    /\ drainPc' = "handle"
    /\ sent' = <<>>
    /\ LoopStep("drain")
    /\ UNCHANGED <<running, cyclePc, handled, cycles, sinceStop>>

DrainBlocks == FALSE

(* asyncio.TimeoutError: no message within the timeout *)
DrainTimeout ==
    /\ drainPc = "wait"
    /\ message_queue = <<>>
    /\ drainPc' = "check"
    /\ sent' = <<>>
    /\ LoopStep("drain")
    /\ UNCHANGED <<running, message_queue, cyclePc, current, handled, cycles,
                   sinceStop>>

DrainResumeUncaught(outcome) == IF outcome = "raised" THEN "done" ELSE "check"

(* where the drain loop stands after process_message: except Exception logs
   and falls through to the loop's head *)
DrainResume(outcome) == "check"

DrainHandle ==
    /\ drainPc = "handle"
    /\ \E outcome \in Outcomes :
         /\ handled' = Append(handled, [message |-> current, outcome |-> outcome])
         /\ sent' = IF outcome = "response"
                    THEN <<[message_type |-> "RESPONSE", message |-> current]>>
                    ELSE <<>>
         /\ drainPc' = DrainResume(outcome)
    /\ current' = None
    /\ sinceStop' = IF running THEN sinceStop
                    ELSE [sinceStop EXCEPT !.process_message = @ + 1]
    /\ LoopStep("process_message")
    /\ UNCHANGED <<running, message_queue, cyclePc, cycles>>

ProcessMessageQueue == DrainCheck \/ DrainGet \/ DrainTimeout \/ DrainHandle

(* while self.running: run_cycle is entered without a suspension *)
CycleCheck ==
    /\ cyclePc = "check"
    /\ running => Len(cycles) < MaxCycles
    /\ cyclePc' = IF running THEN "run" ELSE "done"
    /\ sent' = <<>>
    /\ LoopStep("cycle")
    /\ UNCHANGED <<running, message_queue, drainPc, current, handled, cycles,
                   sinceStop>>

(* run_cycle returns, then sleep(10); or raises, then sleep(5) *)
CycleRun ==
    /\ cyclePc = "run"
    /\ \E outcome \in {"none", "raised"} :
         /\ cycles' = Append(cycles, outcome)
         /\ cyclePc' = IF outcome = "raised" THEN "backoff" ELSE "sleep"
    /\ sinceStop' = IF running THEN sinceStop
                    ELSE [sinceStop EXCEPT !.run_cycle = @ + 1]
    /\ sent' = <<>>
    /\ LoopStep("run_cycle")
    /\ UNCHANGED <<running, message_queue, drainPc, current, handled>>

CycleWake ==
    /\ cyclePc \in {"sleep", "backoff"}
    /\ cyclePc' = "check"
    /\ sent' = <<>>
    /\ LoopStep("cycle")
    /\ UNCHANGED <<running, message_queue, drainPc, current, handled, cycles,
                   sinceStop>>

RunAgentCycles == CycleCheck \/ CycleRun \/ CycleWake

-----------------------------------------------------------------------------
(* InventoryOptimizer (services/optimization/inventory.py) *)

(* the integer part of math.sqrt(x) for x >= 0, with lo * lo <= x: hi is
   doubled until x < hi * hi, then the interval is halved *)
RECURSIVE FloorSqrt(_, _, _)
FloorSqrt(x, lo, hi) ==
    IF hi * hi <= x THEN FloorSqrt(x, hi, 2 * hi)
    ELSE IF hi - lo <= 1 THEN lo
    ELSE LET mid == (lo + hi) \div 2
         IN IF mid * mid <= x THEN FloorSqrt(x, mid, hi) ELSE FloorSqrt(x, lo, mid)

calculate_eoq_floor(annual_demand, unit_cost) ==
    IF annual_demand <= 0 \/ unit_cost <= 0 THEN 0
    ELSE LET holding_cost == unit_cost * HoldingCostPct
             numerator == 2 * annual_demand * OrderingCost * 100
         IN FloorSqrt(numerator \div holding_cost, 0, 1)

(* math.ceil(math.sqrt((2 * D * K) / h)) with h = unit_cost * 0.25, in exact
   arithmetic: the root of the quotient is an integer only when the quotient
   is one and is a square *)
calculate_eoq(annual_demand, unit_cost) ==
    IF annual_demand <= 0 \/ unit_cost <= 0 THEN 0
    ELSE LET holding_cost == unit_cost * HoldingCostPct
             numerator == 2 * annual_demand * OrderingCost * 100
             root == FloorSqrt(numerator \div holding_cost, 0, 1)
         IN IF root * root * holding_cost = numerator THEN root ELSE root + 1

EoqInputs == (((-1)..MaxDemand) \cup {3650}) \X (((-1)..MaxCost) \cup {10})

CalculateEoqCall ==
    \E input \in EoqInputs :
        /\ resp' = [status |-> "eoq",
                    ref |-> <<input[1], input[2], calculate_eoq(input[1], input[2])>>]
        /\ lastOp' = "calculate_eoq"
        /\ sent' = <<>>
        /\ UNCHANGED <<now, ticks, ledger, storeVars, warehouseVars, supplierVars,
                       loopVars>>

-----------------------------------------------------------------------------

(* the rows present at start-up; the store has no row for P2 yet *)
InitialStoreStock == [p \in {"P1"} |-> 1]

InitialWarehouseStock == [p \in {"P1", "P2"} |-> IF p = "P1" THEN 2 ELSE 0]

Init ==
    /\ now = 0
    /\ ticks = 0
    /\ invS = InitialStoreStock
    /\ invW = InitialWarehouseStock
    /\ ledger = <<>>
    /\ orders = <<>>
    /\ pending_transactions = <<>>
    /\ pending_replenishments = <<>>
    /\ storePc = "idle"
    /\ scanRows = <<>>
    /\ pending_transfers = <<>>
    /\ transfer_priorities = <<>>
    /\ wh_pending_orders = <<>>
    /\ nTransfers = 0
    /\ nSupply = 0
    /\ sup_pending_orders = <<>>
    /\ sent = <<>>
    /\ resp = Outcome(NoResponse)
    /\ lastOp = "init"
    /\ reissues = [r \in {RequestIds[i] : i \in 1..Len(RequestIds)} |-> 0]
    /\ execLog = <<>>
    /\ running = FALSE
    /\ message_queue = <<>>
    /\ drainPc = "off"
    /\ cyclePc = "off"
    /\ current = None
    /\ handled = <<>>
    /\ cycles = <<>>
    /\ sinceStop = [process_message |-> 0, run_cycle |-> 0]

SalesNext ==
    \/ SaleRequest
    \/ InventoryUpdate

SpecSales == Init /\ [][SalesNext]_vars

OrdersNext ==
    \/ CreateOrderCall
    \/ OrderUpdate
    \/ StoreCycleStart
    \/ StoreCycleScan
    \/ StoreTick

SpecOrders == Init /\ [][OrdersNext]_vars

RetryNext ==
    \/ SaleRequest
    \/ StoreCycleStart
    \/ StoreCycleScan
    \/ RecordTransferReference
    \/ TransferFailed

SpecRetry == Init /\ [][RetryNext]_vars

WarehouseNext ==
    \/ InventoryRequest
    \/ TransferStatusUpdate
    \/ WarehouseCycle

SpecWarehouse == Init /\ [][WarehouseNext]_vars

TransferNext ==
    \/ InventoryRequest
    \/ WarehouseCycle
    \/ DeliverTransfer

SpecTransfer == Init /\ [][TransferNext]_vars

SupplierNext ==
    \/ PurchaseOrder
    \/ OrderFollowup
    \/ OrderCancellation
    \/ SupplierCycle
    \/ SupplierTick

SpecSupplier == Init /\ [][SupplierNext]_vars

(* the supplier's cycle loop keeps calling run_cycle (base.py:81-91) and the
   clock keeps advancing while the model's clock has ticks left *)
(* an order is placed once and cancelled at most once; what a repeated
   message does is checked in SpecSupplier *)
SupplierLiveNext ==
    \/ PurchaseOrder /\ resp'.status = "success" /\ DOMAIN sup_pending_orders = {}
    \/ /\ OrderCancellation /\ resp'.status = "success"
       /\ \A o \in DOMAIN sup_pending_orders : sup_pending_orders[o].status # "CANCELLED"
    \/ SupplierCycle
    \/ SupplierTick

SpecSupplierLive ==
    Init /\ [][SupplierLiveNext]_vars /\ WF_vars(SupplierCycle) /\ WF_vars(SupplierTick)

ReplenishNext ==
    \/ SaleRequest
    \/ StoreCycleStart
    \/ StoreCycleScan
    \/ RecordTransferReference
    \/ TransferFailed
    \/ DeliverToWarehouse

SpecReplenish == Init /\ [][ReplenishNext]_vars

SupplyNext ==
    \/ InventoryRequest /\ resp'.status = "BACKORDERED"
    \/ PlaceSupplyOrder
    \/ SupplierCycle
    \/ SupplierTick
    \/ DeliverToWarehouse

SpecSupply == Init /\ [][SupplyNext]_vars

FailureNext ==
    \/ SaleRequest /\ resp'.status = "success"
    \/ RecordTransferReference
    \/ InventoryRequest /\ resp'.status = "APPROVED"
    \/ WarehouseCycle
    \/ TransferStatusUpdate
    \/ DeliverToStore

SpecFailure == Init /\ [][FailureNext]_vars

BusNext ==
    \/ SaleRequest /\ resp'.status = "success"
    \/ RecordTransferReference
    \/ InventoryRequest /\ resp'.status \in {"APPROVED", "BACKORDERED"}
    \/ TransferStatusUpdate
    \/ PlaceSupplyOrder
    \/ DeliverToStore
    \/ DeliverToWarehouse
    \/ DeliverToSupplier

SpecBus == Init /\ [][BusNext]_vars

SpecEoq == Init /\ [][CalculateEoqCall]_vars

SpecScan == Init /\ [][CheckInventoryLevelsCall]_vars

SpecSelect == Init /\ [][SelectBestSupplierCall]_vars

LoopsNext ==
    \/ Start
    \/ Stop
    \/ ReceiveMessage
    \/ DrainCheck
    \/ DrainGet
    \/ DrainTimeout
    \/ DrainHandle
    \/ CycleCheck
    \/ CycleRun
    \/ CycleWake

(* the event loop runs both gathered tasks: a timeout or a sleep elapses, and
   an invocation of process_message or run_cycle ends *)
SpecLoops ==
    Init /\ [][LoopsNext]_vars
         /\ WF_vars(ProcessMessageQueue) /\ WF_vars(RunAgentCycles)

-----------------------------------------------------------------------------
(* Properties *)

NonNegative(inv) == \A p \in DOMAIN inv : inv[p] >= 0

(* C1: in every reachable state every inventory row, of the store and of the
   warehouse, holds a quantity >= 0. *)
InventoryNeverNegative == NonNegative(invS) /\ NonNegative(invW)

(* the lines of a request that name a product, ask for a positive quantity
   and ask for more than the store holds of it (no row holds nothing) *)
ShortLines(inv, items) ==
    {i \in 1..Len(items) :
        /\ items[i].product_id # None
        /\ items[i].quantity > 0
        /\ (IF items[i].product_id \in DOMAIN inv THEN inv[items[i].product_id] ELSE 0)
               < items[i].quantity}

NthLine(lines, k) == CHOOSE i \in lines : Cardinality({j \in lines : j < i}) = k - 1

Shortfall(inv, items) ==
    [k \in 1..Cardinality(ShortLines(inv, items)) |->
        LET it == items[NthLine(ShortLines(inv, items), k)]
        IN [product_id |-> it.product_id, requested |-> it.quantity,
            available |-> IF it.product_id \in DOMAIN inv
                          THEN inv[it.product_id] ELSE 0]]

(* C2: in every reachable state, a SALE_REQUEST with a transaction id and at
   least one line that asks for more than the store holds is answered with
   insufficient_inventory and exactly the short lines with their requested
   and available quantities, and it changes no inventory quantity, writes no
   ledger entry and records no pending transaction. *)
ShortSaleRejectedWhole ==
    \A m \in SaleRequests :
        (m.transaction_id # None /\ ShortLines(invS, m.items) # {}) =>
            LET r == HandleSaleRequest(StoreState, m)
            IN /\ r.resp.status = "insufficient_inventory"
               /\ r.resp.items = Shortfall(invS, m.items)
               /\ r.st.inv = invS
               /\ r.st.ledger = ledger
               /\ r.st.pt = pending_transactions
               /\ r.st.pr = pending_replenishments

(* C2 witness: a sale was rejected for a shortfall while the store holds
   stock of some product *)
ShortSaleRejected ==
    /\ lastOp = "SALE_REQUEST"
    /\ resp.status = "insufficient_inventory"
    /\ \E p \in DOMAIN invS : invS[p] > 0
    /\ ledger = <<>>
    /\ pending_transactions = <<>>

Returns(l, o) ==
    Len(SelectSeq(l, LAMBDA e : e.transaction_type = "RETURN" /\ e.reference_id = o))

(* C3: an ORDER_UPDATE handled while an order is DELIVERED does not move that
   order to CANCELLED, returns none of its items to inventory and writes no
   RETURN entry for it. *)
DeliveredOrderStaysDelivered ==
    [][\A o \in DOMAIN orders :
          (orders[o].status = "DELIVERED" /\ lastOp' = "ORDER_UPDATE") =>
              /\ orders'[o].status # "CANCELLED"
              /\ Returns(ledger', o) = Returns(ledger, o)
              /\ invS' = invS]_vars

Debits(l, t) ==
    Len(SelectSeq(l, LAMBDA e : e.location_id = WarehouseId
                                /\ e.reference_id = t /\ e.quantity_change < 0))

Credits(l, t) ==
    Len(SelectSeq(l, LAMBDA e : e.location_id = StoreId
                                /\ e.reference_id = t /\ e.quantity_change > 0))

(* C4: for every transfer the warehouse has executed, the ledger holds
   exactly one debit at the warehouse with its transfer_id and, whatever the
   number of deliveries of its INVENTORY_UPDATE, at most one credit at the
   store with that transfer_id (exactly one once it has been applied). *)
OneDebitOneCredit ==
    \A t \in DOMAIN pending_transfers :
        pending_transfers[t].status = "IN_TRANSIT" =>
            /\ Debits(ledger, t) = 1
            /\ Credits(ledger, t) <= 1

RetriesSent(msgs, rid) ==
    SelectSeq(msgs, LAMBDA x : x.message_type = "REPLENISHMENT_REQUEST"
                               /\ x.request_id = rid)

(* C5: retry_count of a replenishment request never exceeds 3 and at most 3
   re-issues of it are sent; a TRANSFER_FAILED that matches a request whose
   retry_count is 3 sends no REPLENISHMENT_REQUEST and leaves the request in
   pending_replenishments with status failed. *)
RetriesCapped ==
    [][/\ \A i \in 1..Len(pending_replenishments') :
             /\ pending_replenishments'[i].retry_count <= 3
             /\ reissues'[pending_replenishments'[i].request_id] <= 3
       /\ \A i \in 1..Len(pending_replenishments) :
             (/\ pending_replenishments[i].retry_count = 3
              /\ lastOp' = "TRANSFER_FAILED"
              /\ resp'.ref = pending_replenishments[i].request_id) =>
                 /\ sent' = <<>>
                 /\ Len(pending_replenishments') = Len(pending_replenishments)
                 /\ pending_replenishments'[i] =
                        [pending_replenishments[i] EXCEPT !.status = "failed"]
                 /\ reissues' = reissues]_vars

(* C5 witness: a request was retried 3 times and a further matching
   TRANSFER_FAILED has been handled without a re-issue *)
RetriesExhausted ==
    /\ lastOp = "TRANSFER_FAILED"
    /\ sent = <<>>
    /\ \E i \in 1..Len(pending_replenishments) :
          /\ pending_replenishments[i].request_id = resp.ref
          /\ pending_replenishments[i].retry_count = 3
          /\ pending_replenishments[i].status = "failed"
          /\ reissues[resp.ref] = 3

ExpectedRetryPriority(k) == IF k = 1 THEN "MEDIUM" ELSE "LOW"

(* C6: the k-th automatic retry of a request that was issued with priority
   HIGH is sent with priority MEDIUM for k = 1 and LOW for k = 2 and k = 3. *)
RetryPriorityDemotes ==
    [][\A i \in 1..Len(pending_replenishments) :
          LET request == pending_replenishments[i]
              retries == RetriesSent(sent', request.request_id)
          IN (/\ lastOp' = "TRANSFER_FAILED"
              /\ request.priority = "HIGH"
              /\ reissues'[request.request_id] = reissues[request.request_id] + 1) =>
                 /\ Len(retries) = 1
                 /\ retries[1].priority =
                        ExpectedRetryPriority(reissues'[request.request_id])]_vars

(* C7: the transfers a warehouse pass executes are visited in non-increasing
   order of priority score, and of two transfers of one product visited in a
   pass, when the stock left as the higher-scored one is reached suffices for
   either of them but not for both, the higher-scored one is debited and the
   lower-scored one is marked FAILED. *)
TransfersInScoreOrder ==
    /\ \A i, j \in 1..Len(execLog) :
          i < j => execLog[i].score.num * execLog[j].score.den
                       >= execLog[j].score.num * execLog[i].score.den
    /\ \A i, j \in 1..Len(execLog) :
          LET a == execLog[i]
              b == execLog[j]
              ta == pending_transfers[a.transfer_id]
              tb == pending_transfers[b.transfer_id]
          IN (/\ a.score.num * b.score.den > b.score.num * a.score.den
              /\ ta.product_id = tb.product_id
              /\ a.stock >= ta.available_quantity
              /\ a.stock >= tb.available_quantity
              /\ a.stock < ta.available_quantity + tb.available_quantity) =>
                 /\ i < j
                 /\ a.outcome = "IN_TRANSIT" /\ ta.status = "IN_TRANSIT"
                 /\ b.outcome = "FAILED" /\ tb.status = "FAILED"

(* C7 witness: a pass visited two transfers of one product and of different
   score when the stock sufficed for either but not for both; the first was
   debited and the second failed *)
CompetingTransfersRun ==
    \E i, j \in 1..Len(execLog) :
        LET ta == pending_transfers[execLog[i].transfer_id]
            tb == pending_transfers[execLog[j].transfer_id]
        IN /\ i < j
           /\ execLog[i].score.num * execLog[j].score.den
                  > execLog[j].score.num * execLog[i].score.den
           /\ ta.product_id = tb.product_id
           /\ execLog[i].stock >= ta.available_quantity
           /\ execLog[i].stock >= tb.available_quantity
           /\ execLog[i].stock < ta.available_quantity + tb.available_quantity
           /\ execLog[i].outcome = "IN_TRANSIT"
           /\ execLog[j].outcome = "FAILED"

SupplyRequestsSent(msgs) ==
    SelectSeq(msgs, LAMBDA x : x.message_type = "SUPPLY_REQUEST")

(* C8: in every reachable state, an INVENTORY_REQUEST for an existing product
   with quantity q > 0 against warehouse stock s has one of three outcomes:
   s >= q: a PENDING transfer with available_quantity q is created and
   indexed with a score, response APPROVED with its transfer_id;
   0 < s < q: a PENDING transfer with available_quantity s is created and
   indexed, response PARTIAL; s = 0 or no row: no transfer is created, one
   SUPPLY_REQUEST naming the store goes to the supplier agent, response
   BACKORDERED. *)
InventoryRequestThreeWay ==
    \A m \in InventoryRequests :
        (m.product_id \in Products /\ m.quantity > 0) =>
            LET r == HandleInventoryRequest(WarehouseState, m)
                s == IF m.product_id \in DOMAIN invW THEN invW[m.product_id] ELSE 0
                q == m.quantity
                t == r.resp.ref
                created == (DOMAIN r.st.pt) \ (DOMAIN pending_transfers)
                indexed == {r.st.tp[i].transfer_id : i \in 1..Len(r.st.tp)}
                transfer(avail) ==
                    /\ created = {t}
                    /\ r.st.pt[t] = [product_id |-> m.product_id,
                                     store_id |-> m.store_id,
                                     requested_quantity |-> q,
                                     available_quantity |-> avail,
                                     priority |-> m.priority, status |-> "PENDING"]
                    /\ \A x \in DOMAIN pending_transfers :
                          r.st.pt[x] = pending_transfers[x]
                    /\ t \in indexed
                    /\ r.st.po = wh_pending_orders
                    /\ SupplyRequestsSent(r.st.sent) = <<>>
            IN /\ r.st.inv = invW
               /\ r.st.ledger = ledger
               /\ IF s >= q
                  THEN r.resp.status = "APPROVED" /\ transfer(q)
                  ELSE IF s > 0
                  THEN r.resp.status = "PARTIAL" /\ transfer(s)
                  ELSE /\ r.resp.status = "BACKORDERED"
                       /\ r.st.pt = pending_transfers
                       /\ r.st.tp = transfer_priorities
                       /\ Len(SupplyRequestsSent(r.st.sent)) = 1
                       /\ r.st.sent[1].recipient = "supplier_agent"
                       /\ r.st.sent[1].store_id = m.store_id
                       /\ r.st.sent[1].product_id = m.product_id
                       /\ r.st.sent[1].quantity = q

(* C8 witness: a request was answered PARTIAL with a transfer that is pending
   and indexed, after another was backordered *)
PartialTransferCreated ==
    /\ lastOp = "INVENTORY_REQUEST"
    /\ resp.status = "PARTIAL"
    /\ resp.ref \in DOMAIN pending_transfers
    /\ pending_transfers[resp.ref].status = "PENDING"
    /\ pending_transfers[resp.ref].available_quantity
           < pending_transfers[resp.ref].requested_quantity
    /\ \E i \in 1..Len(transfer_priorities) :
          transfer_priorities[i].transfer_id = resp.ref
    /\ wh_pending_orders # <<>>

(* C9: a create_order call either debits every item and returns success, or
   returns without changing any inventory quantity, ledger entry or order;
   it never leaves an inventory quantity below zero. *)
CreateOrderAllOrNothing ==
    [][lastOp' = "create_order" =>
          /\ NonNegative(invS')
          /\ \/ resp'.status = "success"
             \/ /\ resp'.status \in {"insufficient_inventory", "error"}
                /\ invS' = invS /\ ledger' = ledger /\ orders' = orders]_vars

(* C10: a supplier order becomes CANCELLED only by an ORDER_CANCELLATION for
   it handled while it is neither SHIPPED nor DELIVERED; an ORDER_CANCELLATION
   for a SHIPPED or DELIVERED order returns an error, sends nothing and
   leaves the order, its status and its updates log as they were. *)
CancelledOnlyByCancellation ==
    [][/\ \A o \in DOMAIN sup_pending_orders' :
             (/\ sup_pending_orders'[o].status = "CANCELLED"
              /\ (o \notin DOMAIN sup_pending_orders
                  \/ sup_pending_orders[o].status # "CANCELLED")) =>
                 /\ lastOp' = "ORDER_CANCELLATION"
                 /\ resp' = [status |-> "success", ref |-> o]
                 /\ o \in DOMAIN sup_pending_orders
                 /\ sup_pending_orders[o].status \notin {"SHIPPED", "DELIVERED"}
       /\ \A o \in DOMAIN sup_pending_orders :
             (/\ sup_pending_orders[o].status \in {"SHIPPED", "DELIVERED"}
              /\ lastOp' = "ORDER_CANCELLATION"
              /\ resp'.ref = o) =>
                 /\ resp'.status = "error"
                 /\ sent' = <<>>
                 /\ sup_pending_orders' = sup_pending_orders]_vars

(* C10 witness: the cancellation of a SHIPPED order was refused *)
ShippedCancellationRefused ==
    /\ lastOp = "ORDER_CANCELLATION"
    /\ resp.status = "error"
    /\ resp.ref \in DOMAIN sup_pending_orders
    /\ sup_pending_orders[resp.ref].status = "SHIPPED"
    /\ sent = <<>>

ProgressionSteps ==
    {<<"PLACED", "CONFIRMED">>, <<"CONFIRMED", "PROCESSING">>,
     <<"PROCESSING", "SHIPPED">>, <<"SHIPPED", "DELIVERED">>}

(* C11: a supplier cycle leaves the status of an order as it is or moves it
   by one of the steps PLACED to CONFIRMED, CONFIRMED to PROCESSING,
   PROCESSING to SHIPPED, SHIPPED to DELIVERED; a SHIPPED order carries the
   expected_delivery set by the step that made it SHIPPED (1 to 3 days after
   that step), and the step to DELIVERED is taken only at a time that has
   reached it. *)
ProgressionStepwise ==
    [][lastOp' = "supplier_cycle" =>
          \A o \in (DOMAIN sup_pending_orders) \cap (DOMAIN sup_pending_orders') :
              LET before == sup_pending_orders[o]
                  after == sup_pending_orders'[o]
              IN /\ \/ after.status = before.status
                    \/ <<before.status, after.status>> \in ProgressionSteps
                 /\ after.status = "SHIPPED" =>
                       /\ Last(after.updates).status = "SHIPPED"
                       /\ after.expected_delivery - Last(after.updates).timestamp
                              \in {d * DayMinutes : d \in 1..3}
                 /\ (before.status = "SHIPPED" /\ after.status = "DELIVERED") =>
                       /\ now >= before.expected_delivery
                       /\ Last(after.updates) = Update("DELIVERED", now)]_vars

(* C11 witness: an order went through every step, one cycle at a time, and
   was delivered at or after the expected_delivery set at shipment *)
DeliveredStepByStep ==
    /\ lastOp = "supplier_cycle"
    /\ \E o \in DOMAIN sup_pending_orders :
          LET order == sup_pending_orders[o]
          IN /\ order.status = "DELIVERED"
             /\ [i \in 1..Len(order.updates) |-> order.updates[i].status]
                    = <<"PLACED", "CONFIRMED", "PROCESSING", "SHIPPED", "DELIVERED">>
             /\ order.updates[5].timestamp >= order.expected_delivery
             /\ order.expected_delivery > order.updates[4].timestamp

HandledIds == [i \in 1..Len(handled) |-> handled[i].message]

(* C12: an invocation of process_message or of run_cycle that raises leaves
   its loop at the head of its next iteration (the cycle loop after its
   back-off) and leaves the other loop, the queue and the other loop's
   records as they were; neither loop ends while running is true; messages
   are handled in arrival order with none skipped, and a queued message is
   eventually handled unless running becomes false. *)
ExceptionsKeepLoopsRunning ==
    /\ [](drainPc = "done" \/ cyclePc = "done" => ~running)
    /\ [](HandledIds = SubSeq(MessageIds, 1, Len(handled)))
    /\ [][(lastOp' = "process_message" /\ Last(handled').outcome = "raised") =>
             /\ drainPc' = "check" /\ sent' = <<>>
             /\ UNCHANGED <<message_queue, cyclePc, cycles, running>>]_vars
    /\ [][(lastOp' = "run_cycle" /\ Last(cycles') = "raised") =>
             /\ cyclePc' = "backoff"
             /\ UNCHANGED <<message_queue, drainPc, current, handled, running>>]_vars
    /\ \A i \in 1..MaxMessages :
          (\E k \in 1..Len(message_queue) : message_queue[k] = MessageIds[i])
              ~> (~running \/ \E k \in 1..Len(handled) :
                                  handled[k].message = MessageIds[i])
    /\ (cyclePc = "backoff" /\ Len(cycles) < MaxCycles)
           ~> (~running \/ cyclePc = "run")

(* C12 witness: with the agent running, a message was handled after the
   handling of an earlier one raised, and a cycle ran after an earlier one
   raised *)
HandledAfterRaise ==
    /\ running
    /\ \E i, j \in 1..Len(handled) : i < j /\ handled[i].outcome = "raised"
    /\ \E i, j \in 1..Len(cycles) : i < j /\ cycles[i] = "raised"

(* C13: once stop() has set running to false on a started agent, both loops
   eventually end; at most one invocation of process_message and at most one
   of run_cycle complete after it; stop() itself moves neither loop, and a
   message being handled when running is false is handled to its end. *)
StopIsCooperative ==
    /\ [](sinceStop.process_message <= 1 /\ sinceStop.run_cycle <= 1)
    /\ [][lastOp' = "stop" =>
             UNCHANGED <<drainPc, cyclePc, current, message_queue, handled,
                         cycles>>]_vars
    /\ (drainPc # "off" /\ ~running) ~> (drainPc = "done" /\ cyclePc = "done")
    /\ \A i \in 1..MaxMessages :
          (current = MessageIds[i] /\ ~running)
              ~> (\E k \in 1..Len(handled) : handled[k].message = MessageIds[i])

(* C13 witness: both loops have ended after a stop() that found a message
   and a cycle in progress, each of which completed *)
StoppedAfterOneMore ==
    /\ ~running
    /\ drainPc = "done" /\ cyclePc = "done"
    /\ sinceStop = [process_message |-> 1, run_cycle |-> 1]

Typed(msgs, message_type) ==
    SelectSeq(msgs, LAMBDA x : x.message_type = message_type)

(* C14: when the warehouse agent is handed the REPLENISHMENT_REQUEST messages
   a store step sent, it creates a transfer or sends a SUPPLY_REQUEST to the
   supplier agent. *)
ReplenishmentServed ==
    [][(lastOp' = "warehouse_receive"
        /\ Typed(sent, "REPLENISHMENT_REQUEST") # <<>>) =>
          \/ DOMAIN pending_transfers' # DOMAIN pending_transfers
          \/ Typed(sent', "SUPPLY_REQUEST") # <<>>]_vars

(* C15: when the warehouse is handed, in the order sent, the confirmations of
   a supplier cycle that brought to DELIVERED an order it tracks for a store,
   it sends that store an INVENTORY_AVAILABLE message for every line item of
   the order. *)
AvailabilityNotified ==
    [][lastOp' = "warehouse_receive" =>
          \A i \in 1..Len(wh_pending_orders) :
              LET request == wh_pending_orders[i]
                  o == request.order_id
              IN (/\ request.store_id # None
                  /\ o \in DOMAIN sup_pending_orders
                  /\ sup_pending_orders[o].status = "DELIVERED"
                  /\ \E k \in 1..Len(sent) :
                        /\ sent[k].message_type = "SUPPLY_CONFIRMATION"
                        /\ sent[k].order_id = o /\ sent[k].status = "DELIVERED") =>
                     \A j \in 1..Len(sup_pending_orders[o].items) :
                        \E k \in 1..Len(sent') :
                           /\ sent'[k].message_type = "INVENTORY_AVAILABLE"
                           /\ sent'[k].recipient = request.store_id
                           /\ sent'[k].product_id
                                  = sup_pending_orders[o].items[j].product_id
                           /\ sent'[k].quantity
                                  = sup_pending_orders[o].items[j].quantity]_vars

(* C16: when the store is handed the failure notifications the warehouse sent
   for transfers it marked FAILED, every replenishment request whose
   reference_id names such a transfer and whose retry_count is below 3 gets
   status failed, one more retry counted, and is re-issued. *)
FailedTransferRetried ==
    [][lastOp' = "store_receive" =>
          \A i \in 1..Len(pending_replenishments) :
              LET request == pending_replenishments[i]
              IN (/\ request.retry_count < 3
                  /\ \E k \in 1..Len(sent) :
                        /\ sent[k].recipient = StoreId
                        /\ sent[k].message_type \in {"TRANSFER_UPDATE", "TRANSFER_FAILED"}
                        /\ sent[k].status = "FAILED"
                        /\ sent[k].transfer_id = request.reference_id) =>
                     /\ pending_replenishments'[i].status = "failed"
                     /\ pending_replenishments'[i].retry_count
                            = request.retry_count + 1
                     /\ \E k \in 1..Len(sent') :
                           /\ sent'[k].message_type = "REPLENISHMENT_REQUEST"
                           /\ sent'[k].request_id = request.request_id]_vars

StoreTypes == {"SALE_REQUEST", "INVENTORY_UPDATE", "ORDER_UPDATE", "TRANSFER_FAILED"}
WarehouseTypes == {"INVENTORY_REQUEST", "SUPPLY_CONFIRMATION", "TRANSFER_STATUS_UPDATE"}
SupplierTypes == {"PURCHASE_ORDER", "ORDER_FOLLOWUP", "ORDER_CANCELLATION"}

AllTypes ==
    StoreTypes \cup WarehouseTypes \cup SupplierTypes
        \cup {"REPLENISHMENT_REQUEST", "SUPPLY_REQUEST", "TRANSFER_UPDATE",
              "TRANSFER_INITIATED", "INVENTORY_AVAILABLE", "INVENTORY_RESPONSE", None}

(* a content that has every field a handler reads *)
AnyContents ==
    [transaction_id : SaleIds, items : {<<Item(ProductOrder[1], 1)>>},
     product_id : {ProductOrder[1]}, quantity : {1}, update_type : {"ADD"},
     request_id : {RequestIds[1]}, transfer_id : {TransferIds[1], TransferIds[2]},
     order_id : {SupplierOrderIds[1]}, status : {"FAILED"},
     reason : {"Unknown reason"}, store_id : {StoreId}, priority : {"HIGH"},
     warehouse_id : {WarehouseId}]

(* C17: in every reachable state, for each of the three agents, a message of
   a type outside the agent's dispatch set returns no response, sends no
   message and leaves inventory, the ledger and the agent's pending maps as
   they are; and a step that hands an agent only such messages changes
   nothing of that agent and sends nothing. *)
UnknownTypeDropped ==
    /\ [](\A t \in AllTypes, c \in AnyContents :
            /\ t \notin StoreTypes =>
                 StoreProcessMessage(StoreState, t, c)
                     = [st |-> StoreState, resp |-> NoResponse]
            /\ t \notin WarehouseTypes =>
                 WarehouseProcessMessage(WarehouseState, t, c)
                     = [st |-> WarehouseState, resp |-> NoResponse]
            /\ t \notin SupplierTypes =>
                 SupplierProcessMessage(SupplierState, t, c)
                     = [st |-> SupplierState, resp |-> NoResponse])
    /\ [][(lastOp' = "store_receive"
           /\ \A k \in 1..Len(sent) : sent[k].message_type \notin StoreTypes) =>
             /\ sent' = <<>> /\ resp'.status = None
             /\ UNCHANGED <<invS, ledger, orders, pending_transactions,
                            pending_replenishments, reissues>>]_vars
    /\ [][(lastOp' = "warehouse_receive"
           /\ \A k \in 1..Len(sent) : sent[k].message_type \notin WarehouseTypes) =>
             /\ sent' = <<>> /\ resp'.status = None
             /\ UNCHANGED <<invW, ledger, pending_transfers, transfer_priorities,
                            wh_pending_orders>>]_vars
    /\ [][(lastOp' = "supplier_receive"
           /\ \A k \in 1..Len(sent) : sent[k].message_type \notin SupplierTypes) =>
             /\ sent' = <<>> /\ resp'.status = None
             /\ UNCHANGED <<ledger, sup_pending_orders>>]_vars

(* C17 witness: the store was handed a TRANSFER_UPDATE, a type it does not
   dispatch, for the transfer one of its pending requests refers to *)
UnknownTypeHandedOver ==
    /\ lastOp = "store_receive"
    /\ sent = <<>>
    /\ nTransfers > 0 /\ TransferIds[1] \notin DOMAIN pending_transfers
    /\ \E i \in 1..Len(pending_replenishments) :
          /\ pending_replenishments[i].reference_id = TransferIds[1]
          /\ pending_replenishments[i].status = "pending"

(* C18: in every reachable state a message that lacks a required content
   field or carries an invalid one (a SALE_REQUEST without transaction_id or
   items, an INVENTORY_UPDATE without product_id or with quantity 0, an
   INVENTORY_REQUEST with a quantity that is not positive, a PURCHASE_ORDER
   without order_id, items or warehouse_id) is answered with an error payload
   and leaves the state of its agent as it is. *)
InvalidMessageRejected ==
    /\ \A m \in SaleRequests :
          (m.transaction_id = None \/ m.items = <<>>) =>
              HandleSaleRequest(StoreState, m)
                  = [st |-> StoreState, resp |-> Response("error", None, <<>>, 0)]
    /\ \A m \in InventoryUpdates :
          (m.product_id = None \/ m.quantity = 0) =>
              HandleInventoryUpdate(StoreState, m)
                  = [st |-> StoreState, resp |-> Response("error", None, <<>>, 0)]
    /\ \A m \in PurchaseOrders :
          (m.order_id = None \/ m.items = <<>> \/ m.warehouse_id = None) =>
              HandlePurchaseOrder(SupplierState, m)
                  = [st |-> SupplierState, resp |-> Response("error", None, <<>>, 0)]
    /\ \A m \in InventoryRequests :
          m.quantity <= 0 =>
              LET r == HandleInventoryRequest(WarehouseState, m)
              IN /\ r.resp.status \in {"error", "REJECTED"}
                 /\ r.st = WarehouseState

(* C19: calculate_eoq(D, c) with ordering cost 20 and holding cost 25% is 0
   when D <= 0 or c <= 0, and otherwise the least integer n with
   n * n * (0.25 * c) >= 2 * D * 20; it is 242 for D = 3650 and c = 10. *)
EoqIsLeastCover ==
    lastOp = "calculate_eoq" =>
        LET D == resp.ref[1]
            c == resp.ref[2]
            n == resp.ref[3]
        IN /\ (D <= 0 \/ c <= 0) => n = 0
           /\ (D > 0 /\ c > 0) =>
                 /\ n \in Nat
                 /\ n * n * 25 * c >= 2 * D * 20 * 100
                 /\ \A k \in 0..(n - 1) : k * k * 25 * c < 2 * D * 20 * 100
           /\ (D = 3650 /\ c = 10) => n = 242

(* C19 witness: the documented example was computed *)
EoqOfDocumentedExample ==
    lastOp = "calculate_eoq" /\ resp.ref = <<3650, 10, 242>>

(* what a pass has debited of product p before its i-th visit *)
DebitedBefore(log, pt, p, i) ==
    SumSeq([j \in 1..(i - 1) |->
              IF pt[log[j].transfer_id].product_id = p /\ log[j].outcome = "IN_TRANSIT"
              THEN pt[log[j].transfer_id].available_quantity ELSE 0])

(* C20: a warehouse cycle visits the indexed PENDING transfers, each once;
   a transfer is executed against the stock left at that moment: if it
   covers available_quantity the warehouse is debited by exactly that
   quantity, one TRANSFER entry with the transfer_id is written, the status
   becomes IN_TRANSIT and TRANSFER_INITIATED goes to the store; otherwise
   nothing is debited or written, the status becomes FAILED and the store is
   sent the failure. Transfers not visited stay as they were. *)
ExecutionAllOrNothing ==
    [][lastOp' = "warehouse_cycle" =>
          LET log == execLog'
              pt == pending_transfers
              notices == SelectSeq(sent', LAMBDA x : x.recipient # "supplier_agent")
              added == SubSeq(ledger', Len(ledger) + 1, Len(ledger'))
              moved == SelectSeq(log, LAMBDA v : v.outcome = "IN_TRANSIT")
          IN /\ {log[i].transfer_id : i \in 1..Len(log)}
                   = {t \in DOMAIN pt :
                        /\ pt[t].status = "PENDING"
                        /\ \E k \in 1..Len(transfer_priorities) :
                              transfer_priorities[k].transfer_id = t}
             /\ \A i, j \in 1..Len(log) :
                   log[i].transfer_id = log[j].transfer_id => i = j
             /\ DOMAIN pending_transfers' = DOMAIN pt
             /\ \A t \in DOMAIN pt :
                   (\A i \in 1..Len(log) : log[i].transfer_id # t) =>
                       pending_transfers'[t] = pt[t]
             /\ Len(notices) = Len(log)
             /\ \A i \in 1..Len(log) :
                   LET t == log[i].transfer_id
                       p == pt[t].product_id
                       q == pt[t].available_quantity
                       left == invW[p] - DebitedBefore(log, pt, p, i)
                   IN /\ notices[i].recipient = pt[t].store_id
                      /\ notices[i].transfer_id = t
                      /\ pending_transfers'[t] = [pt[t] EXCEPT !.status = log[i].outcome]
                      /\ IF left >= q
                         THEN /\ log[i].outcome = "IN_TRANSIT"
                              /\ notices[i].message_type = "TRANSFER_INITIATED"
                              /\ notices[i].quantity = q
                         ELSE /\ log[i].outcome = "FAILED"
                              /\ notices[i].message_type = "TRANSFER_UPDATE"
                              /\ notices[i].status = "FAILED"
             /\ added = [i \in 1..Len(moved) |->
                           Entry(pt[moved[i].transfer_id].product_id,
                                 -pt[moved[i].transfer_id].available_quantity,
                                 "TRANSFER", WarehouseId, moved[i].transfer_id)]
             /\ \A p \in DOMAIN invW :
                   invW'[p] = invW[p] - DebitedBefore(log, pt, p, Len(log) + 1)]_vars

(* C20 witness: a cycle executed one transfer and failed another for which
   some stock, but less than its available_quantity, was left *)
ShortTransferFailedWhole ==
    /\ lastOp = "warehouse_cycle"
    /\ \E i, j \in 1..Len(execLog) :
          /\ execLog[i].outcome = "IN_TRANSIT"
          /\ execLog[j].outcome = "FAILED"
          /\ execLog[j].stock > 0
          /\ pending_transfers[execLog[j].transfer_id].status = "FAILED"
          /\ invW[pending_transfers[execLog[j].transfer_id].product_id]
                 = execLog[j].stock

(* C21: no transfer with a terminal status remains in pending_transfers or
   in the priority index once a warehouse handler or cycle pass has
   completed *)
TerminalTransfersRemoved ==
    /\ \A t \in DOMAIN pending_transfers :
          pending_transfers[t].status \notin {"COMPLETED", "FAILED"}
    /\ \A k \in 1..Len(transfer_priorities) :
          transfer_priorities[k].transfer_id \in DOMAIN pending_transfers

(* C22: an automatic retry re-issues the request under its own request_id
   and overwrites the stored request: after the TRANSFER_FAILED handler,
   pending_replenishments has as many entries as before, the
   REPLENISHMENT_REQUEST sent carries the original request_id, and the entry
   stored under that id carries the demoted priority that was sent. *)
RetryOverwritesRequest ==
    [][\A i \in 1..Len(pending_replenishments) :
          LET request == pending_replenishments[i]
          IN (/\ lastOp' = "TRANSFER_FAILED"
              /\ reissues'[request.request_id] = reissues[request.request_id] + 1) =>
                 /\ Len(pending_replenishments') = Len(pending_replenishments)
                 /\ Len(sent') = 1
                 /\ sent'[1].message_type = "REPLENISHMENT_REQUEST"
                 /\ sent'[1].request_id = request.request_id
                 /\ sent'[1].priority = DemotedPriority(request.priority)
                 /\ pending_replenishments'[i].request_id = request.request_id
                 /\ pending_replenishments'[i].priority = sent'[1].priority]_vars

(* the request the scan added and the message it sent, for a row of quantity q
   with pending quantity pq: one new entry with status pending and one
   REPLENISHMENT_REQUEST of the quantity and priority given *)
ScanIssued(before, p, quantity, priority) ==
    /\ Len(pending_replenishments) = Len(before) + 1
    /\ SubSeq(pending_replenishments, 1, Len(before)) = before
    /\ LET request == pending_replenishments[Len(before) + 1]
       IN /\ request.product_id = p
          /\ request.status = "pending"
          /\ request.quantity = quantity
          /\ request.priority = priority
          /\ sent = <<ReplenishmentMsg(request.request_id, p, quantity, priority)>>

ScanSkipped(before) == pending_replenishments = before /\ sent = <<>>

(* C23, as stated: with safety stock s = max(2, 20% of f) and reorder point
   r = f + s, the scan issues a request iff quantity + pending < r, for
   2 * r - quantity units, with priority HIGH when quantity < s, MEDIUM when
   s <= quantity < f, LOW otherwise. Quantities are compared in fifths, so
   20% of f is exact. *)
ScanFollowsReorderRule ==
    lastOp = "check_inventory_levels" =>
        LET q == resp.ref.quantity
            f == resp.ref.predicted_demand
            pq == PendingQty(resp.ref.pending, resp.ref.product_id)
            s5 == Max(5 * 2, f)
            r5 == 5 * f + s5
            priority == IF 5 * q < s5 THEN "HIGH"
                        ELSE IF q < f THEN "MEDIUM" ELSE "LOW"
        IN IF 5 * (q + pq) < r5
           THEN \E n \in 0..(3 * (MaxForecast + MaxScanQty)) :
                   /\ 5 * n = 2 * r5 - 5 * q
                   /\ ScanIssued(resp.ref.pending, resp.ref.product_id, n, priority)
           ELSE ScanSkipped(resp.ref.pending)

(* C23, amended: with s = max(2, the integer part of 20% of f) and r = f + s,
   the scan issues a request iff quantity + pending < r, for
   2 * r - (quantity + pending) units, with priority HIGH when quantity < s,
   MEDIUM when s <= quantity < f, LOW otherwise. *)
ScanOrdersUpToTwiceReorderPoint ==
    lastOp = "check_inventory_levels" =>
        LET q == resp.ref.quantity
            f == resp.ref.predicted_demand
            pq == PendingQty(resp.ref.pending, resp.ref.product_id)
            s == Max(2, CHOOSE n \in 0..f : 5 * n <= f /\ f < 5 * (n + 1))
            r == f + s
            priority == IF q < s THEN "HIGH"
                        ELSE IF q < f THEN "MEDIUM" ELSE "LOW"
        IN IF q + pq < r
           THEN ScanIssued(resp.ref.pending, resp.ref.product_id,
                           2 * r - (q + pq), priority)
           ELSE ScanSkipped(resp.ref.pending)

(* C23 witness: a row below its reorder point although a replenishment is
   pending for it, scanned with a forecast of which 20% is no integer *)
ScanWithPendingRequested ==
    /\ lastOp = "check_inventory_levels"
    /\ PendingQty(resp.ref.pending, resp.ref.product_id) > 0
    /\ resp.ref.predicted_demand = 11
    /\ Len(pending_replenishments) = 2
    /\ pending_replenishments[2].priority = "MEDIUM"
    /\ Len(sent) = 1

HasPending(pr, p) ==
    \E i \in 1..Len(pr) : pr[i].product_id = p /\ pr[i].status = "pending"

(* C24: in every reachable state, a SALE_REQUEST that commits creates, for
   each product it sold whose remaining quantity is <= minimum_stock, one
   HIGH-priority replenishment request for max(10, 4 * minimum_stock) units
   if and only if no request of that product was pending, and sends it; it
   creates no other request, and never two for one product. *)
SaleReordersOnce ==
    \A m \in SaleRequests :
        LET r == HandleSaleRequest(StoreState, m)
            before == pending_replenishments
            added == SubSeq(r.st.pr, Len(before) + 1, Len(r.st.pr))
        IN r.resp.status = "success" =>
              /\ Len(r.st.pr) >= Len(before)
              /\ SubSeq(r.st.pr, 1, Len(before)) = before
              /\ r.st.sent = [k \in 1..Len(added) |->
                                ReplenishmentMsg(added[k].request_id,
                                                 added[k].product_id,
                                                 added[k].quantity, added[k].priority)]
              /\ \A p \in Products :
                    LET sold == \E k \in 1..Len(m.items) :
                                    /\ m.items[k].product_id = p
                                    /\ m.items[k].quantity > 0
                        due == /\ sold
                               /\ r.st.inv[p] <= minimum_stock[p]
                               /\ ~HasPending(before, p)
                        forP == SelectSeq(added, LAMBDA x : x.product_id = p)
                    IN /\ Len(forP) = IF due THEN 1 ELSE 0
                       /\ due => /\ forP[1].priority = "HIGH"
                                 /\ forP[1].status = "pending"
                                 /\ forP[1].quantity
                                       = (IF 4 * minimum_stock[p] > 10
                                          THEN 4 * minimum_stock[p] ELSE 10)

(* C24 witness: a sale has just created the request of a product, and a
   further sale of that product that leaves it at or below minimum_stock
   commits without creating another *)
SecondSaleReordersNothing ==
    /\ lastOp = "SALE_REQUEST"
    /\ resp.status = "success"
    /\ Len(sent) = 1
    /\ \E m \in SaleRequests :
          LET r == HandleSaleRequest(StoreState, m)
              p == sent[1].product_id
          IN /\ r.resp.status = "success"
             /\ HasPending(pending_replenishments, p)
             /\ \E k \in 1..Len(m.items) : m.items[k].product_id = p
             /\ r.st.inv[p] < invS[p]
             /\ r.st.inv[p] <= minimum_stock[p]
             /\ r.st.pr = pending_replenishments

(* the SUPPLY_CONFIRMATION messages about order o among msgs *)
Confirmations(msgs, o) ==
    SelectSeq(msgs, LAMBDA x : x.message_type = "SUPPLY_CONFIRMATION"
                               /\ x.order_id = o)

(* the ones that carry a status and no line items *)
StatusNotices(msgs, o) ==
    SelectSeq(Confirmations(msgs, o), LAMBDA x : "items" \notin DOMAIN x)

(* C25, as stated: a cancellation that succeeds, and a supplier cycle that
   changes the status of an order, append exactly one entry with the new
   status to the order's updates log and send exactly one SUPPLY_CONFIRMATION
   carrying the new status to the warehouse of the order; a cycle that does
   not change the status appends nothing and sends no status notification
   for the order. *)
StatusChangeNotifiedOnce ==
    [][\A o \in DOMAIN sup_pending_orders :
          LET old == sup_pending_orders[o]
              new == sup_pending_orders'[o]
              changed == \/ lastOp' = "ORDER_CANCELLATION"
                            /\ resp' = [status |-> "success", ref |-> o]
                         \/ lastOp' = "supplier_cycle" /\ new.status # old.status
          IN (lastOp' \in {"supplier_cycle", "ORDER_CANCELLATION"}
              /\ ticks' = ticks
              /\ o \in DOMAIN sup_pending_orders') =>
                 /\ changed =>
                       /\ new.updates = Append(old.updates, Update(new.status, now))
                       /\ Len(SelectSeq(Confirmations(sent', o),
                                        LAMBDA x : x.status = new.status)) = 1
                       /\ \A k \in 1..Len(Confirmations(sent', o)) :
                             Confirmations(sent', o)[k].recipient = old.warehouse_id
                 /\ (lastOp' = "supplier_cycle" /\ ~changed) =>
                       /\ new.updates = old.updates
                       /\ StatusNotices(sent', o) = <<>>]_vars

(* C25, amended: the one SUPPLY_CONFIRMATION of a status change is the one
   without line items; a change to DELIVERED is followed, in the same cycle,
   by the detailed delivery confirmation, which carries DELIVERED and the
   line items. *)
StatusChangeNotifiedOncePlusDelivery ==
    [][\A o \in DOMAIN sup_pending_orders :
          LET old == sup_pending_orders[o]
              new == sup_pending_orders'[o]
              changed == \/ lastOp' = "ORDER_CANCELLATION"
                            /\ resp' = [status |-> "success", ref |-> o]
                         \/ lastOp' = "supplier_cycle" /\ new.status # old.status
              detailed == SelectSeq(Confirmations(sent', o),
                                    LAMBDA x : "items" \in DOMAIN x)
          IN (lastOp' \in {"supplier_cycle", "ORDER_CANCELLATION"}
              /\ ticks' = ticks
              /\ o \in DOMAIN sup_pending_orders') =>
                 /\ changed =>
                       /\ new.updates = Append(old.updates, Update(new.status, now))
                       /\ StatusNotices(sent', o)
                             = <<ConfirmationMsg(o, old.warehouse_id, new.status)>>
                       /\ Len(detailed) = IF new.status = "DELIVERED" THEN 1 ELSE 0
                       /\ \A k \in 1..Len(detailed) :
                             /\ detailed[k].status = "DELIVERED"
                             /\ detailed[k].recipient = old.warehouse_id
                             /\ Len(detailed[k].items) = Len(old.items)
                 /\ (lastOp' = "supplier_cycle" /\ ~changed) =>
                       /\ new.updates = old.updates
                       /\ StatusNotices(sent', o) = <<>>]_vars

(* C25 witness: a cycle has moved an order to DELIVERED and sent both the
   status notification and the detailed delivery confirmation *)
DeliveryNotifiedTwice ==
    /\ lastOp = "supplier_cycle"
    /\ \E o \in DOMAIN sup_pending_orders :
          /\ sup_pending_orders[o].status = "DELIVERED"
          /\ Last(sup_pending_orders[o].updates) = Update("DELIVERED", now)
          /\ Len(StatusNotices(sent, o)) = 1
          /\ Len(Confirmations(sent, o)) = 2

(* purchase orders of one or two items: a known and an unknown product, a
   quantity within and one beyond every supplier's capacity *)
OrdersTried ==
    LET lines == [product_id : {ProductOrder[1], "P3"},
                  quantity : {1, MaxQty + 1},
                  unit_price : {unit_price[ProductOrder[1]]}]
    IN [order_id : {SupplierOrderIds[1]},
        items : {<<a>> : a \in lines} \cup {<<a, b>> : a \in lines, b \in lines},
        warehouse_id : {WarehouseId}]

(* a supplier carries the product with enough capacity *)
Qualifies(item) ==
    /\ item.product_id \in Products
    /\ \E k \in 1..Len(Suppliers) :
          /\ item.product_id \in Suppliers[k].products
          /\ Suppliers[k].max_capacity >= item.quantity

(* C26: in every reachable state, a PURCHASE_ORDER stores the order with
   status PLACED and exactly the items for which a supplier qualifies, in
   their order, and confirms it to the warehouse; when no item qualifies it
   returns an error, leaves pending_orders as it was and sends nothing. *)
UnservedItemsLeftOut ==
    \A m \in OrdersTried :
        LET r == HandlePurchaseOrder(SupplierState, m)
            remaining == SelectSeq(m.items, Qualifies)
        IN IF remaining = <<>>
           THEN /\ r.resp.status = "error"
                /\ r.st.po = sup_pending_orders
                /\ r.st.sent = <<>>
           ELSE /\ r.resp.status = "success"
                /\ DOMAIN r.st.po = DOMAIN sup_pending_orders \cup {m.order_id}
                /\ \A o \in DOMAIN sup_pending_orders :
                      o # m.order_id => r.st.po[o] = sup_pending_orders[o]
                /\ r.st.po[m.order_id].status = "PLACED"
                /\ [k \in 1..Len(r.st.po[m.order_id].items) |->
                      [product_id |-> r.st.po[m.order_id].items[k].product_id,
                       quantity |-> r.st.po[m.order_id].items[k].quantity,
                       unit_price |-> r.st.po[m.order_id].items[k].unit_price]]
                      = remaining
                /\ r.st.sent = <<ConfirmationMsg(m.order_id, m.warehouse_id, "PLACED")>>

(* C26 witness: a purchase order was refused and stored nothing, and an order
   of one unserved and one served item would be placed with the served one *)
MixedOrderPlacedInPart ==
    /\ lastOp = "PURCHASE_ORDER"
    /\ resp.status = "error"
    /\ sup_pending_orders = <<>>
    /\ sent = <<>>
    /\ \E m \in OrdersTried :
          LET r == HandlePurchaseOrder(SupplierState, m)
          IN /\ Len(m.items) = 2
             /\ ~Qualifies(m.items[1])
             /\ Qualifies(m.items[2])
             /\ r.resp.status = "success"
             /\ Len(r.st.po[m.order_id].items) = 1
             /\ r.st.po[m.order_id].items[1].product_id = m.items[2].product_id

(* C27: _select_best_supplier(product, quantity) returns a supplier that
   carries the product and has max_capacity >= quantity, whose score
   0.4 * lead_time_days + 0.4 * (1 - reliability) + 0.2 * cost_factor
   (times 500 here, reliability and cost_factor in hundredths) is at most
   that of every supplier carrying the product with enough capacity; it
   returns null exactly when there is no such supplier. *)
BestSupplierIsCheapestCapable ==
    lastOp = "select_best_supplier" =>
        LET rows == resp.ref.suppliers
            chosen == resp.ref.supplier
            capable == {k \in 1..Len(rows) :
                          /\ resp.ref.product_id \in rows[k].products
                          /\ rows[k].max_capacity >= resp.ref.quantity}
            score(x) == 200 * x.lead_time_days + 2 * (100 - x.reliability)
                            + x.cost_factor
        IN /\ (chosen.id = None) <=> (capable = {})
           /\ chosen.id # None =>
                 /\ \E k \in capable : rows[k] = chosen
                 /\ \A k \in capable : score(chosen) <= score(rows[k])

(* C27 witness: of two capable suppliers the second one, being of lower
   score through its cost factor alone, was selected *)
CheaperSecondSupplierSelected ==
    /\ lastOp = "select_best_supplier"
    /\ Len(resp.ref.suppliers) = 2
    /\ resp.ref.supplier = resp.ref.suppliers[2]
    /\ resp.ref.suppliers[1].max_capacity >= resp.ref.quantity
    /\ resp.ref.product_id \in resp.ref.suppliers[1].products
    /\ resp.ref.suppliers[1].lead_time_days = resp.ref.suppliers[2].lead_time_days
    /\ resp.ref.suppliers[1].reliability = resp.ref.suppliers[2].reliability
    /\ resp.ref.suppliers[1].cost_factor > resp.ref.suppliers[2].cost_factor

(* C28: the messages receive_message enqueued are passed to process_message
   in the order enqueued, each once: the k-th invocation handles the k-th
   message received. The step that ends an invocation with a response sends
   that one response, and no other step of the loops sends anything, so the
   response is sent before the next message is taken. A message that waits
   in the queue of a running agent is handled unless the agent is stopped. *)
QueueDrainedInOrder ==
    /\ [](/\ \A i \in 1..Len(handled) : handled[i].message = MessageIds[i]
          /\ current # None => current = MessageIds[Len(handled) + 1]
          /\ \A k \in 1..Len(message_queue) :
                message_queue[k]
                    = MessageIds[Len(handled) + (IF current = None THEN 0 ELSE 1) + k])
    /\ [][IF handled' # handled
          THEN /\ handled' = Append(handled, Last(handled'))
               /\ Last(handled').message = current
               /\ sent' = IF Last(handled').outcome = "response"
                          THEN <<[message_type |-> "RESPONSE", message |-> current]>>
                          ELSE <<>>
          ELSE sent' = <<>>]_vars
    /\ \A i \in 1..MaxMessages :
          (running /\ \E k \in 1..Len(message_queue) : message_queue[k] = MessageIds[i])
              ~> (\/ ~running
                  \/ \E k \in 1..Len(handled) : handled[k].message = MessageIds[i])

(* C28 witness: a running agent has handled two messages, the first with a
   response, the second without; the last step sent nothing *)
TwoHandledOneAnswered ==
    /\ running
    /\ Len(handled) = 2
    /\ handled[1] = [message |-> MessageIds[1], outcome |-> "response"]
    /\ handled[2] = [message |-> MessageIds[2], outcome |-> "none"]
    /\ lastOp = "process_message"
    /\ sent = <<>>

(* the sum of quantity_change over the ledger entries of a product at a
   location *)
LedgerChange(p, loc) ==
    LET rows == SelectSeq(ledger, LAMBDA e : e.product_id = p /\ e.location_id = loc)
    IN SumSeq([i \in 1..Len(rows) |-> rows[i].quantity_change])

(* C29: in every reachable state, for each product and location the
   inventory quantity (no row counts as nothing) equals its initial quantity
   plus the sum of quantity_change over the ledger entries written for that
   product and location. *)
LedgerAccountsForQuantity ==
    \A p \in Products :
        /\ Available(invS, p) = Available(InitialStoreStock, p) + LedgerChange(p, StoreId)
        /\ Available(invW, p)
               = Available(InitialWarehouseStock, p) + LedgerChange(p, WarehouseId)

(* the sale was handled before with the same lines and has completed *)
CompletedBefore(m) ==
    \E i \in 1..Len(pending_transactions) :
        /\ pending_transactions[i].transaction_id = m.transaction_id
        /\ pending_transactions[i].items = m.items
        /\ pending_transactions[i].status = "completed"

(* C30: in every reachable state, handling again a SALE_REQUEST whose
   transaction_id has completed with the same items debits no inventory and
   writes no ledger entry. *)
RedeliveredSaleDebitsNothing ==
    \A m \in SaleRequests :
        (m.transaction_id # None /\ CompletedBefore(m)) =>
            LET r == HandleSaleRequest(StoreState, m)
            IN /\ r.st.inv = invS
               /\ r.st.ledger = ledger

(* C31: a sale the SALE_REQUEST handler answered without success is not
   applied afterwards. The handler sets a record to completed before it
   answers success, so between handler invocations the records with status
   pending are those of sales it refused at debit time: in every reachable
   state the pending-sales pass of run_cycle debits no inventory and writes
   no ledger entry. *)
RefusedSaleNeverApplied ==
    LET sold == ProcessPendingSales(StoreState)
    IN /\ sold.inv = invS
       /\ sold.ledger = ledger

(* the stock-level check has asked for p and no confirmation has arrived *)
SupplyOutstanding(p) ==
    \E i \in 1..Len(wh_pending_orders) :
        /\ wh_pending_orders[i].product_id = p
        /\ wh_pending_orders[i].store_id = None
        /\ wh_pending_orders[i].status = "REQUESTED"

(* C32: in every reachable state where a product is below minimum_stock and
   the request of an earlier stock-level check for it is outstanding with no
   SUPPLY_CONFIRMATION received, a further cycle sends no SUPPLY_REQUEST for
   the product and adds no entry to pending_orders. *)
OneSupplyRequestPerProduct ==
    \A p \in Products :
        (p \in DOMAIN invW /\ invW[p] < minimum_stock[p] /\ SupplyOutstanding(p)) =>
            LET cycled == WarehouseRunCycle(WarehouseState)
            IN /\ \A k \in 1..Len(cycled.sent) :
                     ~(/\ cycled.sent[k].message_type = "SUPPLY_REQUEST"
                       /\ cycled.sent[k].product_id = p)
               /\ cycled.po = wh_pending_orders

Terminal == {"DELIVERED", "CANCELLED", "REJECTED"}

(* C33: a supplier order whose status is DELIVERED, CANCELLED or REJECTED
   keeps its status and its items through every step, a cycle or a message,
   until it is reaped. *)
TerminalStatusAbsorbing ==
    [][\A o \in DOMAIN sup_pending_orders :
          sup_pending_orders[o].status \in Terminal =>
              \/ o \notin DOMAIN sup_pending_orders'
              \/ /\ sup_pending_orders'[o].status = sup_pending_orders[o].status
                 /\ sup_pending_orders'[o].items = sup_pending_orders[o].items]_vars

(* the confirmations of order o that carry its line items *)
DeliveryDetails(msgs, o) ==
    SelectSeq(Confirmations(msgs, o), LAMBDA x : "items" \in DOMAIN x)

(* C34: the detailed delivery confirmation of an order is sent once, by the
   cycle that makes the order DELIVERED: a cycle that finds the order
   DELIVERED already sends no detailed confirmation for it. *)
DeliveryDetailedOnce ==
    [][(lastOp' = "supplier_cycle" /\ ticks' = ticks) =>
          \A o \in DOMAIN sup_pending_orders :
              sup_pending_orders[o].status = "DELIVERED" =>
                  DeliveryDetails(sent', o) = <<>>]_vars

(* the quantity of product p that RETURN entries referencing order o credit *)
ReturnedQty(entries, o, p) ==
    LET rows == SelectSeq(entries, LAMBDA e : /\ e.transaction_type = "RETURN"
                                              /\ e.reference_id = o
                                              /\ e.product_id = p)
    IN SumSeq([i \in 1..Len(rows) |-> rows[i].quantity_change])

OrderedQty(order, p) ==
    LET lines == SelectSeq(order.items, LAMBDA it : it.product_id = p)
    IN SumSeq([i \in 1..Len(lines) |-> lines[i].quantity])

(* C35: in every reachable state, and after any ORDER_UPDATE handled in it,
   the RETURN entries referencing an order credit, for each product, no more
   than the order's items hold of it. *)
ItemsReturnedAtMostOnce ==
    \A m \in OrderUpdates :
        LET r == HandleOrderUpdate(StoreState, m)
        IN \A o \in DOMAIN r.st.orders, p \in Products :
              ReturnedQty(r.st.ledger, o, p) <= OrderedQty(r.st.orders[o], p)

(* the SALE entries written for a transaction *)
SaleEntries(entries, tid) ==
    SelectSeq(entries, LAMBDA e : e.transaction_type = "SALE" /\ e.reference_id = tid)

(* C36: the pending-sales pass of run_cycle debits no transaction that the
   SALE_REQUEST handler has debited. The handler runs from storing the record
   to marking it completed without a suspension point, so the pass runs
   between handler invocations: in every reachable state, after any
   INVENTORY_UPDATE handled in it, the pass writes SALE entries only for
   transactions that have none. *)
CycleDebitsOnlyUndebited ==
    \A u \in InventoryUpdates :
        LET updated == HandleInventoryUpdate(StoreState, u).st
            sold == ProcessPendingSales(updated)
        IN \A tid \in SaleIds :
              Len(SaleEntries(sold.ledger, tid)) > Len(SaleEntries(updated.ledger, tid))
                  => SaleEntries(ledger, tid) = <<>>

(* enough time has passed for the order to leave its status whatever number
   the cycle draws: more than the highest threshold since the last update,
   or the expected delivery reached *)
Due(order) ==
    LET time_since_update == now - Last(order.updates).timestamp
    IN \/ order.status = "PLACED" /\ time_since_update > 4 * HourMinutes
       \/ order.status = "CONFIRMED" /\ time_since_update > 24 * HourMinutes
       \/ order.status = "PROCESSING" /\ time_since_update > 3 * DayMinutes
       \/ order.status = "SHIPPED" /\ now >= order.expected_delivery

Held(o, status) ==
    o \in DOMAIN sup_pending_orders /\ sup_pending_orders[o].status = status

Successor(status) ==
    IF status = "PLACED" THEN "CONFIRMED"
    ELSE IF status = "CONFIRMED" THEN "PROCESSING"
    ELSE IF status = "PROCESSING" THEN "SHIPPED"
    ELSE "DELIVERED"

(* C37: an accepted order that is not cancelled reaches DELIVERED when the
   cycle keeps running and time keeps advancing, whatever the cycle draws.
   A cycle moves an order to the next status only; an order that is due in
   its status does not stay so; and an accepted order ends DELIVERED or
   CANCELLED, or the clock of the model has run out while the order was
   waiting for time to pass. *)
AcceptedOrderDelivered ==
    /\ [][\A o \in DOMAIN sup_pending_orders :
            (/\ lastOp' = "supplier_cycle"
             /\ ticks' = ticks
             /\ o \in DOMAIN sup_pending_orders'
             /\ sup_pending_orders'[o].status # sup_pending_orders[o].status)
               => sup_pending_orders'[o].status
                      = Successor(sup_pending_orders[o].status)]_vars
    /\ \A o \in {SupplierOrderIds[i] : i \in 1..MaxSupplierOrders} :
          /\ (o \in DOMAIN sup_pending_orders /\ Due(sup_pending_orders[o]))
                ~> ~(o \in DOMAIN sup_pending_orders /\ Due(sup_pending_orders[o]))
          /\ (o \in DOMAIN sup_pending_orders)
                ~> \/ o \notin DOMAIN sup_pending_orders
                   \/ Held(o, "DELIVERED")
                   \/ Held(o, "CANCELLED")
                   \/ (ticks = MaxSupplierTicks /\ ~Due(sup_pending_orders[o]))

(* C37 witness: an order went through every stage, each cycle drawing its
   own thresholds, and the last cycle delivered it *)
OrderWentThroughEveryStage ==
    LET o == SupplierOrderIds[1]
    IN /\ Held(o, "DELIVERED")
       /\ lastOp = "supplier_cycle"
       /\ [i \in 1..Len(sup_pending_orders[o].updates) |->
              sup_pending_orders[o].updates[i].status]
            = <<"PLACED", "CONFIRMED", "PROCESSING", "SHIPPED", "DELIVERED">>

(* C38: after the TRANSFER_FAILED handler has re-issued a request, the
   request has status pending, its quantity counts as pending replenishment
   of its product, and neither the post-sale reorder check nor the scan of
   the product's row (whatever the forecast) adds a request on account of
   the retried one being left out. *)
RetriedRequestCountsAsPending ==
    [][\A i \in 1..Len(pending_replenishments) :
          LET request == pending_replenishments[i]
              p == request.product_id
              after == [StoreState EXCEPT !.inv = invS',
                                          !.pr = pending_replenishments']
          IN (/\ lastOp' = "TRANSFER_FAILED"
              /\ reissues'[request.request_id] = reissues[request.request_id] + 1) =>
                 /\ pending_replenishments'[i].status = "pending"
                 /\ PendingQty(pending_replenishments', p)
                        = PendingQty(pending_replenishments, p)
                 /\ CheckReorderNeeded(after, p).pr = pending_replenishments'
                 /\ \A predicted_demand \in Forecasts :
                       (p \in DOMAIN invS /\ invS[p] + request.quantity
                                                >= predicted_demand + SafetyStock(predicted_demand))
                           => CheckInventoryRow(after, p, predicted_demand).pr
                                  = pending_replenishments']_vars

(* C39: when a scan of a row has issued a replenishment request, a second
   scan of the row with the same quantity and the same forecast, the first
   scan's request being the only change, issues none: it sends nothing and
   leaves pending_replenishments as the first scan left it. *)
ScanIsIdempotent ==
    (lastOp = "check_inventory_levels" /\ sent # <<>>) =>
        LET again == CheckInventoryRow(StoreState, resp.ref.product_id,
                                       resp.ref.predicted_demand)
        IN /\ invS[resp.ref.product_id] = resp.ref.quantity
           /\ again.sent = <<>>
           /\ again.pr = pending_replenishments

(* C39 witness: the first scan issued a request on top of one that was
   pending already *)
ScanIssuedBesidePending ==
    /\ lastOp = "check_inventory_levels"
    /\ Len(sent) = 1
    /\ sent[1].message_type = "REPLENISHMENT_REQUEST"
    /\ Len(resp.ref.pending) = 1
    /\ resp.ref.pending[1].status = "pending"
    /\ Len(pending_replenishments) = 2
    /\ resp.ref.predicted_demand = 3

(* C40: in every reachable state, after a handler that returned or raised
   and after a cycle pass, the transfer ids of transfer_priorities are those
   of pending_transfers. *)
IndexMatchesTransfers ==
    {transfer_priorities[k].transfer_id : k \in 1..Len(transfer_priorities)}
        = DOMAIN pending_transfers

====
